---- MODULE Spec2Model ----
(***************************************************************************)
(* Abuse detection and escalation engine of SentinelAI.                    *)
(*                                                                         *)
(*  - the abuse-rate detector (AntiNukeSystem, src/security/antinuke.js):  *)
(*    event handlers run as processes that interleave at their awaits,     *)
(*    sharing the actionTracker map and the per-guild settings cache;      *)
(*  - the content risk engine (analyzeMessageWithGroq and its helpers,     *)
(*    src/moderation/groq-engine.js, found at the end of                   *)
(*    src/commands/handlers.js) as operators over a moderation input and   *)
(*    a classifier behaviour;                                              *)
(*  - the message handler (handleMessage, src/bot/discord-bot.js).         *)
(*                                                                         *)
(* JavaScript objects are records; reading a property that an object does  *)
(* not have yields undefined, which is modelled by the Has/Get operators.  *)
(***************************************************************************)
EXTENDS Integers, Sequences, FiniteSets, TLC

\* ------------------------------------------------------------------ bounds
MaxEvents == 4      \* administrative events of a run with one handler slot
MaxBurst == 3       \* administrative events of a run with two handler slots
MaxTicks == 3       \* clock advances of a run
MaxUpdates == 1     \* settings commands of a run
MaxCmdEvents == 2   \* administrative events of a run with settings commands

\* ------------------------------------------------- JavaScript value helpers
\* A number, or undefined (a missing property).
Num(n) == [t |-> "num", v |-> n]
Undef == [t |-> "undef", v |-> 0]
IsNum(x) == x.t = "num"

Has(obj, k) == k \in DOMAIN obj
\* obj[k] for a numeric property
GetNum(obj, k) == IF Has(obj, k) THEN Num(obj[k]) ELSE Undef
\* obj[k] for a string property
GetStr(obj, k) == IF Has(obj, k) THEN obj[k] ELSE "undefined"
\* truthiness of obj[k] for a boolean property
Truthy(obj, k) == Has(obj, k) /\ obj[k] = TRUE
\* a < b and a >= b on (number, number-or-undefined): a comparison with
\* undefined is false
JsLt(a, b) == IsNum(b) /\ a < b.v
JsGe(a, b) == IsNum(b) /\ a >= b.v
\* x || d for a number-or-undefined x: 0 and undefined are falsy
JsOr(x, d) == IF IsNum(x) /\ x.v # 0 THEN x ELSE d

\* --------------------------------------------------------- tenant policy
GuildId == "g1"

DEFAULT_SETTINGS ==
  [ enabled |-> TRUE,
    channelDeleteLimit |-> 3,
    channelCreateLimit |-> 5,
    roleDeleteLimit |-> 3,
    roleCreateLimit |-> 5,
    banLimit |-> 3,
    kickLimit |-> 5,
    webhookCreateLimit |-> 3,
    memberPruneLimit |-> 10,
    timeWindow |-> 10000,
    punishmentType |-> "BAN",
    notifyOwner |-> TRUE,
    lockdownOnTrigger |-> TRUE,
    whitelist |-> {},
    nightmodeEnabled |-> FALSE,
    nightmodeStartHour |-> 23,
    nightmodeEndHour |-> 7,
    nightmodeTimezone |-> "UTC",
    nightmodeStricterLimits |-> TRUE,
    nightmodeAutoLock |-> TRUE,
    nightmodeChannelDeleteLimit |-> 1,
    nightmodeChannelCreateLimit |-> 2,
    nightmodeRoleDeleteLimit |-> 1,
    nightmodeRoleCreateLimit |-> 2,
    nightmodeBanLimit |-> 1,
    nightmodeKickLimit |-> 2,
    nightmodeWebhookCreateLimit |-> 1 ]

\* The row of table antinuke_settings that createDefaultAntiNukeSettings
\* inserts and returns: the columns are named in snake_case.
DefaultRow(wl) ==
  [ guild_id |-> GuildId,
    enabled |-> TRUE,
    channel_delete_limit |-> 3,
    channel_create_limit |-> 5,
    role_delete_limit |-> 3,
    role_create_limit |-> 5,
    ban_limit |-> 3,
    kick_limit |-> 5,
    webhook_create_limit |-> 3,
    member_prune_limit |-> 10,
    time_window |-> 10000,
    punishment_type |-> "BAN",
    notify_owner |-> TRUE,
    lockdown_on_trigger |-> TRUE,
    whitelist |-> wl ]

NoRow == [ absent |-> TRUE ]
NotLoaded == [ loaded |-> FALSE ]

\* r with the columns of u overwritten (UPDATE ... SET u)
Merge(u, r) == [k \in DOMAIN r |-> IF k \in DOMAIN u THEN u[k] ELSE r[k]]

\* The updates sent by the antinuke enable, disable and config commands.
SettingsUpdates ==
  { [enabled |-> TRUE], [enabled |-> FALSE],
    [channel_delete_limit |-> 1, punishment_type |-> "KICK"] }

\* ------------------------------------------------------------- night mode
Hours == 0..23
\* isNightMode returns before it reads the clock when night mode is disabled
HoursRead(s) == IF Has(s, "nightmodeEnabled") /\ s.nightmodeEnabled = TRUE
                THEN Hours ELSE {0}

\* The time zones a policy may name; toLocaleString throws a RangeError for
\* a timeZone that is no IANA zone, and isNightMode catches it.
TimeZones == {"UTC", "Asia/Kolkata", "Mars/Olympus"}
KnownTimeZone(tz) == tz \in {"UTC", "Asia/Kolkata"}
\* settings.nightmodeTimezone || 'UTC'
TimeZoneOf(s) ==
  IF Has(s, "nightmodeTimezone") /\ s.nightmodeTimezone # ""
  THEN s.nightmodeTimezone ELSE "UTC"

\* currentHour is the hour parsed from toLocaleString in the policy's zone
isNightMode(s, currentHour) ==
  IF ~Truthy(s, "nightmodeEnabled") THEN FALSE
  ELSE IF ~KnownTimeZone(TimeZoneOf(s)) THEN FALSE
  ELSE LET startHour == JsOr(GetNum(s, "nightmodeStartHour"), Num(23)).v
           endHour == JsOr(GetNum(s, "nightmodeEndHour"), Num(7)).v
       IN IF startHour > endHour
          THEN currentHour >= startHour \/ currentHour < endHour
          ELSE currentHour >= startHour /\ currentHour < endHour

NightKey(limitType) ==
  CASE limitType = "channelDeleteLimit" -> "nightmodeChannelDeleteLimit"
    [] limitType = "channelCreateLimit" -> "nightmodeChannelCreateLimit"
    [] limitType = "roleDeleteLimit" -> "nightmodeRoleDeleteLimit"
    [] limitType = "roleCreateLimit" -> "nightmodeRoleCreateLimit"
    [] limitType = "banLimit" -> "nightmodeBanLimit"
    [] limitType = "kickLimit" -> "nightmodeKickLimit"
    [] limitType = "webhookCreateLimit" -> "nightmodeWebhookCreateLimit"
    [] OTHER -> "nightmodeNone"

getEffectiveLimit(s, limitType, currentHour) ==
  IF ~isNightMode(s, currentHour) \/ ~Truthy(s, "nightmodeStricterLimits")
  THEN GetNum(s, limitType)
  ELSE JsOr(GetNum(s, NightKey(limitType)), GetNum(s, limitType))


\* ------------------------------------------------------ event handler table
\* One entry per listener registered by setupListeners: the key of the
\* sliding window (actionType), the limit field, the reason handed to
\* punishUser (also the eventType of the audit record) and the reversal.
EventKinds ==
  { "channelDelete", "channelCreate", "roleDelete", "roleCreate",
    "guildBanAdd", "guildMemberRemove", "webhookUpdate",
    "roleUpdate", "guildUpdate", "guildMemberAdd" }

CountedKinds ==
  { "channelDelete", "channelCreate", "roleDelete", "roleCreate",
    "guildBanAdd", "guildMemberRemove", "webhookUpdate" }

ActionType(kind) ==
  CASE kind = "channelDelete" -> "CHANNEL_DELETE"
    [] kind = "channelCreate" -> "CHANNEL_CREATE"
    [] kind = "roleDelete" -> "ROLE_DELETE"
    [] kind = "roleCreate" -> "ROLE_CREATE"
    [] kind = "guildBanAdd" -> "BAN"
    [] kind = "guildMemberRemove" -> "KICK"
    [] kind = "webhookUpdate" -> "WEBHOOK_CREATE"
    [] OTHER -> "NONE"

LimitType(kind) ==
  CASE kind = "channelDelete" -> "channelDeleteLimit"
    [] kind = "channelCreate" -> "channelCreateLimit"
    [] kind = "roleDelete" -> "roleDeleteLimit"
    [] kind = "roleCreate" -> "roleCreateLimit"
    [] kind = "guildBanAdd" -> "banLimit"
    [] kind = "guildMemberRemove" -> "kickLimit"
    [] kind = "webhookUpdate" -> "webhookCreateLimit"
    [] OTHER -> "noLimit"

Reason(kind) ==
  CASE kind = "channelDelete" -> "CHANNEL_DELETE"
    [] kind = "channelCreate" -> "CHANNEL_CREATE"
    [] kind = "roleDelete" -> "ROLE_DELETE"
    [] kind = "roleCreate" -> "ROLE_CREATE"
    [] kind = "guildBanAdd" -> "MASS_BAN"
    [] kind = "guildMemberRemove" -> "MASS_KICK"
    [] kind = "webhookUpdate" -> "WEBHOOK_SPAM"
    [] kind = "roleUpdate" -> "PERMISSION_ESCALATION"
    [] kind = "guildUpdate" -> "GUILD_MODIFICATION"
    [] OTHER -> "DANGEROUS_BOT_ADD"

\* handlers of which handleBan does not undo the ban
ReversalOp_keepsBan(kind) ==
  CASE kind = "channelDelete" -> "restoreChannel"
    [] kind = "channelCreate" -> "deleteChannel"
    [] kind = "roleDelete" -> "restoreRole"
    [] kind = "roleCreate" -> "deleteRole"
    [] kind = "guildBanAdd" -> "none"
    [] kind = "guildMemberRemove" -> "none"
    [] kind = "webhookUpdate" -> "deleteWebhooks"
    [] kind = "roleUpdate" -> "setPermissions"
    [] kind = "guildUpdate" -> "setName"
    [] OTHER -> "kickBot"

\* The platform call a handler makes after punishUser.
ReversalOp(kind) ==
  CASE kind = "channelDelete" -> "restoreChannel"
    [] kind = "channelCreate" -> "deleteChannel"
    [] kind = "roleDelete" -> "restoreRole"
    [] kind = "roleCreate" -> "deleteRole"
    [] kind = "guildBanAdd" -> "unban"
    [] kind = "guildMemberRemove" -> "none"
    [] kind = "webhookUpdate" -> "deleteWebhooks"
    [] kind = "roleUpdate" -> "setPermissions"
    [] kind = "guildUpdate" -> "setName"
    [] OTHER -> "kickBot"

\* restoreChannel and restoreRole catch their own errors; a failure of any
\* other reversal reaches the catch of the handler.
ReversalCatchesOwnError(op) == op \in {"restoreChannel", "restoreRole"}

PunishOps == {"removeRole", "ban", "kick", "stripRoles"}
EscalationOps == {"notifyOwner", "lockdown"}
ReversalOps ==
  { "restoreChannel", "deleteChannel", "restoreRole", "deleteRole", "unban",
    "deleteWebhooks", "setPermissions", "setName", "kickBot" }

\* ------------------------------------------------------------------ state
OwnerId == "owner"
\* client.user.id: the account the engine acts with
ClientUserId == "sentinel"
Users == {"owner", "mallory", "trusted"}
Handlers == {"h1", "h2"}

VARIABLES
  slots,          \* the handler activations a run may use (fixed by Init)
  eventCap,       \* the number of events a run delivers (fixed by Init)
  focus,          \* the listener whose events the run delivers (fixed by Init)
  actor,          \* the user the audit trail names in the run (fixed by Init)
  clock,          \* Date.now(), in ms
  ticks,          \* number of clock advances so far
  dbRow,          \* the guild's row of table antinuke_settings, or NoRow
  trustedUsers,   \* the rows getTrustedUsers returns for the guild
  settings,       \* AntiNukeSystem.settings: the cached policy of the guild
  actionTracker,  \* the module's Map: key -> sequence of timestamps
  members,        \* users that guild.members.fetch finds
  dangerousRoles, \* members holding a role with Administrator, ManageGuild
                  \* or ManageRoles
  hs,             \* handler activations: position and local variables
  nEvents,        \* events delivered so far
  stats,          \* what the handlers of the actor's events did so far
  calls,          \* platform calls made by the engine: <<op, actor concerned>>
  audit,          \* the row of security_events written last, or NoRow
  nUpdates        \* settings commands completed so far

nukeVars ==
  << slots, eventCap, focus, actor, clock, ticks, dbRow, trustedUsers, settings,
     actionTracker, members, dangerousRoles, hs, nEvents, stats, calls, audit,
     nUpdates >>

\* the content risk engine and the message handler
VARIABLES
  input,            \* the moderation input of the current evaluation
  evalPc,           \* position inside analyzeMessageWithGroq
  decision,         \* what analyzeMessageWithGroq returned
  classifierCalled, \* groq.chat.completions.create was called
  completion,       \* what the classifier call produced: the parsed content,
                    \* or the way it failed
  msgCap,           \* the number of guild messages a run delivers
  message,          \* the guild message being handled
  msgPc,            \* position inside handleMessage
  captchaVerified,  \* users.captcha_verified, per author
  warnings,         \* active rows of user_warnings in the guild, per author
  enforced,         \* enforcement applied to the message: <<op, author>>
  modLog,           \* the row of moderation_logs written for the message,
                    \* or NoRow
  msgTrace,         \* how the handling of the message went: the member's
                    \* standing, the run of executeAction, the persistence
                    \* call that failed
  nMsgs             \* guild messages delivered so far

riskVars ==
  << input, evalPc, decision, classifierCalled, completion, msgCap, message,
     msgPc, captchaVerified, warnings, enforced, modLog, msgTrace, nMsgs >>

\* ------------------------------------------- night mode and lockdown calls
VARIABLES
  nightCall,        \* a call of isNightMode / getEffectiveLimit on any policy
  lock,             \* a guild's channels under initiateServerLockdown and
                    \* unlockServer
  race,             \* two activations of handleMessage for one author
  session           \* a CAPTCHA session and the codes submitted to it

sideVars == << nightCall, lock, race, session >>

vars == << nukeVars, riskVars, sideVars >>

\* no call of the night-mode functions, no guild under lockdown
NoNight == [ pc |-> "idle" ]
NoLock == [ pc |-> "idle" ]
NoRace == [ pc |-> "idle" ]
NoSession == [ pc |-> "idle" ]
SideIdle ==
  /\ nightCall = NoNight
  /\ lock = NoLock
  /\ race = NoRace
  /\ session = NoSession

\* process.env.DISCORD_OWNER_ID
DISCORD_OWNER_ID == "botowner"
Authors == {DISCORD_OWNER_ID, "mallory"}

NoInput == [ noInput |-> TRUE ]
NoDecision == [ noDecision |-> TRUE ]
NoMessage == [ noMessage |-> TRUE ]
NoResponse == [ noResponse |-> TRUE ]

\* what the bot may do to the message and its author: message.deletable,
\* member.kickable, member.moderatable (a missing member is neither)
Standings == [ deletable : BOOLEAN, kickable : BOOLEAN, moderatable : BOOLEAN ]
\* executeAction not started: the message exists, no handler of actions.js
\* entered, no platform call attempted or applied
NoRun == [ deleted |-> FALSE, handlers |-> << >>, attempts |-> << >>,
           applied |-> {} ]
\* nothing happened to the message yet
NoTrace ==
  [ failed |-> "none", logged |-> FALSE, decided |-> FALSE,
    standing |-> [deletable |-> FALSE, kickable |-> FALSE,
                  moderatable |-> FALSE],
    run |-> NoRun ]

\* no evaluation and no message in progress
RiskIdle ==
  /\ input = NoInput
  /\ evalPc = "idle"
  /\ decision = NoDecision
  /\ classifierCalled = FALSE
  /\ completion = NoResponse
  /\ message = NoMessage
  /\ msgPc = "idle"
  /\ enforced = {}
  /\ modLog = NoRow
  /\ msgTrace = NoTrace
  /\ nMsgs = 0

\* half of the default window: two ticks make a timestamp exactly one window
\* old, three make it older
TickMs == DEFAULT_SETTINGS.timeWindow \div 2

Idle ==
  [ pc |-> "idle", kind |-> "none", user |-> "none", epoch |-> 0,
    isNight |-> FALSE, limit |-> Undef, nameChanged |-> FALSE, now |-> 0,
    actions |-> << >>, count |-> 0 ]

Key(userId, actionType) == << GuildId, userId, actionType >>

\* a row of trusted_users as getTrustedUsers selects it: the joined
\* discord_users record is nested
TrustedRow(u) ==
  [ guild_id |-> GuildId, user_id |-> u,
    discord_users |-> [username |-> u, discord_user_id |-> u] ]

NoStats ==
  [ tracked |-> 0,       \* trackAction calls that returned
    first |-> 0,         \* Date.now() of the first of them
    last |-> 0,          \* Date.now() of the latest of them
    counts |-> {},       \* the counts they returned
    punishUser |-> FALSE ]  \* punishUser has been called

InitNuke(sl, kinds, cap) ==
  /\ SideIdle
  /\ slots = sl
  /\ eventCap = cap
  /\ focus \in kinds
  /\ actor \in Users
  /\ clock = 0
  /\ ticks = 0
  /\ dbRow \in {NoRow, DefaultRow({"trusted"})}
  /\ trustedUsers = {TrustedRow("trusted")}
  /\ settings = NotLoaded
  /\ actionTracker = << >>
  /\ members = Users
  /\ dangerousRoles = {"owner", "mallory"}
  /\ hs = [h \in Handlers |-> Idle]
  /\ nEvents = 0
  /\ stats = NoStats
  /\ calls = {}
  /\ audit = NoRow
  /\ nUpdates = 0
  /\ RiskIdle
  /\ msgCap = 0
  /\ captchaVerified = [a \in Authors |-> FALSE]
  /\ warnings = [a \in Authors |-> 0]

\* ------------------------------------------------------- sliding window
\* trackAction that forgets what was stored
trackActionFilter_forgets(actions, now, s) == << now >>

\* trackAction that keeps a timestamp that is exactly one window old
trackActionFilter_inclusive(actions, now, s) ==
  SelectSeq(actions, LAMBDA time :
              LET w == GetNum(s, "timeWindow") IN IsNum(w) /\ now - time <= w.v)
    \o << now >>

\* trackAction, lines 177-178: the timestamps of the sequence read before the
\* await that are kept, followed by now.
trackActionFilter(actions, now, s) ==
  SelectSeq(actions, LAMBDA time : JsLt(now - time, GetNum(s, "timeWindow")))
    \o << now >>

\* isWhitelisted: the policy's whitelist or a row of getTrustedUsers whose
\* discord_user_id property equals the user id
isWhitelisted(s, rows, userId) ==
  \/ userId \in s.whitelist
  \/ \E u \in rows : GetStr(u, "discord_user_id") = userId

\* punishUser without its owner check
isGuildOwner_unchecked(memberId) == FALSE

\* punishUser, line 689
isGuildOwner(memberId) == memberId = OwnerId

\* the values of an event attribute that only one listener looks at
Relevant(looksAtIt) == IF looksAtIt THEN BOOLEAN ELSE {TRUE}

\* ------------------------------------------------------------ the handlers
\* client.on(<focus>, ...): the listener starts a handler activation.
Dispatch(h) ==
  /\ h \in slots
  /\ hs[h].pc = "idle"
  /\ nEvents < eventCap
  /\ nEvents' = nEvents + 1
  /\ hs' = [hs EXCEPT ![h] = [Idle EXCEPT !.pc = "getSettings",
                                          !.kind = focus,
                                          !.epoch = nUpdates]]
  /\ UNCHANGED << slots, eventCap, focus, actor, clock, ticks, dbRow, trustedUsers,
                  settings, actionTracker, members, dangerousRoles, stats,
                  calls, audit, nUpdates, riskVars, sideVars >>

\* handleRoleUpdate: the permissions a role may hold, and those of them the
\* handler lists as dangerous (Administrator, ManageGuild, ManageRoles,
\* ManageChannels, BanMembers, KickMembers)
RolePerms == {"Administrator", "KickMembers", "SendMessages"}
dangerousPerms == {"Administrator", "KickMembers"}

\* a test that looks at all the permissions of the updated role
hasDangerousPerms_anyHeld(oldPerms, newPerms) ==
  \E p \in newPerms : p \in dangerousPerms

\* addedPerms = newPerms.filter(p => !oldPerms.includes(p));
\* addedPerms.some(p => dangerousPerms.includes(PermissionFlagsBits[p]))
hasDangerousPerms(oldPerms, newPerms) ==
  LET addedPerms == { p \in newPerms : p \notin oldPerms }
  IN \E p \in addedPerms : p \in dangerousPerms

\* getAntiNukeSettings: <<what getSettings makes of its answer (null becomes
\* DEFAULT_SETTINGS), the row afterwards>>
LoadOutcomes ==
  IF dbRow = NoRow
  THEN { << DEFAULT_SETTINGS, NoRow >>,
         << DefaultRow({}), DefaultRow({}) >> }
  ELSE { << DEFAULT_SETTINGS, dbRow >>, << dbRow, dbRow >> }

\* The handler's first await: getSettings (cached, or loaded and cached),
\* then the enabled check, the handler's own precondition and the limit.
GetSettings(h) ==
  /\ hs[h].pc = "getSettings"
  /\ \E o \in IF settings = NotLoaded THEN LoadOutcomes
                                      ELSE { << settings, dbRow >> } :
       LET s == o[1] IN
       /\ settings' = s
       /\ dbRow' = o[2]
       /\ IF ~Truthy(s, "enabled")
          THEN hs' = [hs EXCEPT ![h] = Idle]
          ELSE \E hr \in HoursRead(s),
                  dangerousAdded \in
                    IF hs[h].kind = "roleUpdate"
                    THEN { hasDangerousPerms(oldPerms, newPerms) :
                             oldPerms \in SUBSET RolePerms,
                             newPerms \in SUBSET RolePerms }
                    ELSE {TRUE},
                  nameChanged \in Relevant(hs[h].kind = "guildUpdate"),
                  vanityChanged \in Relevant(hs[h].kind = "guildUpdate") :
                 IF \/ hs[h].kind = "roleUpdate" /\ ~dangerousAdded
                    \/ hs[h].kind = "guildUpdate" /\ ~nameChanged /\ ~vanityChanged
                 THEN hs' = [hs EXCEPT ![h] = Idle]
                 ELSE hs' = [hs EXCEPT
                        ![h].pc = "fetchAuditLogs",
                        ![h].isNight = isNightMode(s, hr),
                        ![h].limit = getEffectiveLimit(s, LimitType(hs[h].kind), hr),
                        ![h].nameChanged = nameChanged]
  /\ UNCHANGED << slots, eventCap, focus, actor, clock, ticks, trustedUsers,
                  actionTracker, members, dangerousRoles, nEvents, stats, calls,
                  audit, nUpdates, riskVars, sideVars >>

AuditOutcomes(kind) ==
  {"throws", "noEntry", "noExecutor"}
    \cup (IF kind = "guildMemberRemove" THEN {"otherTarget"} ELSE {})
    \cup {actor}

\* a handler that goes on to its audit record when the attribution failed
FetchAuditLogs_logsUnattributed(h) ==
  /\ hs[h].pc = "fetchAuditLogs"
  /\ \E o \in AuditOutcomes(hs[h].kind) :
       IF o \in Users \cup {ClientUserId}
       THEN hs' = [hs EXCEPT ![h].pc = "isWhitelisted", ![h].user = o]
       ELSE hs' = [hs EXCEPT ![h].pc = "logSecurityEvent"]
  /\ UNCHANGED << slots, eventCap, focus, actor, clock, ticks, dbRow, trustedUsers,
                  settings, actionTracker, members, dangerousRoles, nEvents,
                  stats, calls, audit, nUpdates, riskVars, sideVars >>

\* await guild.fetchAuditLogs({type, limit: 1}) and the attribution checks
FetchAuditLogs(h) ==
  /\ hs[h].pc = "fetchAuditLogs"
  /\ \E o \in AuditOutcomes(hs[h].kind) :
       IF o \in Users \cup {ClientUserId}
       THEN hs' = [hs EXCEPT ![h].pc = "isWhitelisted", ![h].user = o]
       ELSE hs' = [hs EXCEPT ![h] = Idle]
  /\ UNCHANGED << slots, eventCap, focus, actor, clock, ticks, dbRow, trustedUsers,
                  settings, actionTracker, members, dangerousRoles, nEvents,
                  stats, calls, audit, nUpdates, riskVars, sideVars >>

\* await isWhitelisted(...); for a counted kind the synchronous start of
\* trackAction follows in the same turn: Date.now(), the has/set of the key
\* and the read of the stored sequence, up to the await inside trackAction.
IsWhitelisted(h) ==
  /\ hs[h].pc = "isWhitelisted"
  /\ LET u == hs[h].user
         key == Key(u, ActionType(hs[h].kind))
         \* getTrustedUsers answers [] when its query fails
         wlCases == { isWhitelisted(settings, rows, u) :
                        rows \in {trustedUsers, {}} }
     IN \E wl \in wlCases :
          IF wl
          THEN /\ hs' = [hs EXCEPT ![h] = Idle]
               /\ UNCHANGED << actionTracker, stats >>
          ELSE IF hs[h].kind \in CountedKinds
          THEN LET stored == IF key \in DOMAIN actionTracker
                             THEN actionTracker[key] ELSE << >>
               IN /\ actionTracker' = (key :> stored) @@ actionTracker
                  /\ hs' = [hs EXCEPT ![h].pc = "trackAction",
                                      ![h].now = clock,
                                      ![h].actions = stored]
                  /\ UNCHANGED stats
          ELSE /\ \E hasDangerous \in Relevant(hs[h].kind = "guildMemberAdd") :
                    IF hasDangerous
                    THEN hs' = [hs EXCEPT ![h].pc = "punishUser",
                                          ![h].count = 1]
                    ELSE hs' = [hs EXCEPT ![h] = Idle]
               /\ UNCHANGED << actionTracker, stats >>
  /\ UNCHANGED << slots, eventCap, focus, actor, clock, ticks, dbRow, trustedUsers,
                  settings, members, dangerousRoles, nEvents, calls, audit,
                  nUpdates, riskVars, sideVars >>

\* trackAction after its await: filter, push, set, return the length; then
\* the handler's comparison of the count with the limit.
\* a trackAction that starts a new window once the limit is reached
TrackAction_resetsOnBreach(h) ==
  /\ hs[h].pc = "trackAction"
  /\ LET key == Key(hs[h].user, ActionType(hs[h].kind))
         validActions == trackActionFilter(hs[h].actions, hs[h].now, settings)
         count == Len(validActions)
         breach == JsGe(count, hs[h].limit)
     IN /\ actionTracker' = [actionTracker EXCEPT
                               ![key] = IF breach THEN << >> ELSE validActions]
        /\ hs' = [hs EXCEPT ![h].count = count,
                            ![h].pc = IF breach THEN "punishUser"
                                      ELSE "logSecurityEvent"]
        /\ stats' = [stats EXCEPT
                       !.tracked = @ + 1,
                       !.first = IF stats.tracked = 0 THEN hs[h].now ELSE @,
                       !.last = IF hs[h].now > @ THEN hs[h].now ELSE @,
                       !.counts = @ \cup {count}]
  /\ UNCHANGED << slots, eventCap, focus, actor, clock, ticks, dbRow, trustedUsers,
                  settings, members, dangerousRoles, nEvents, calls, audit,
                  nUpdates, riskVars, sideVars >>

TrackAction(h) ==
  /\ hs[h].pc = "trackAction"
  /\ LET key == Key(hs[h].user, ActionType(hs[h].kind))
         validActions == trackActionFilter(hs[h].actions, hs[h].now, settings)
         count == Len(validActions)
     IN /\ actionTracker' = [actionTracker EXCEPT ![key] = validActions]
        /\ hs' = [hs EXCEPT ![h].count = count,
                            ![h].pc = IF JsGe(count, hs[h].limit)
                                      THEN "punishUser"
                                      ELSE "logSecurityEvent"]
        /\ stats' = [stats EXCEPT
                       !.tracked = @ + 1,
                       !.first = IF stats.tracked = 0 THEN hs[h].now ELSE @,
                       !.last = IF hs[h].now > @ THEN hs[h].now ELSE @,
                       !.counts = @ \cup {count}]
  /\ UNCHANGED << slots, eventCap, focus, actor, clock, ticks, dbRow, trustedUsers,
                  settings, members, dangerousRoles, nEvents, calls, audit,
                  nUpdates, riskVars, sideVars >>

PunishmentOp(punishmentType) ==
  CASE punishmentType = "BAN" -> "ban"
    [] punishmentType = "KICK" -> "kick"
    [] punishmentType = "STRIP_ROLES" -> "stripRoles"
    [] OTHER -> "none"

\* await punishUser(guild, executor, reason, count): the member fetch, the
\* owner check, the removal of dangerous roles, the configured punishment,
\* the owner notification and the lockdown.  A platform call that throws
\* ends punishUser in its catch block.
PunishUser(h) ==
  /\ hs[h].pc = "punishUser"
  /\ LET u == hs[h].user
         op == PunishmentOp(GetStr(settings, "punishmentType"))
     IN /\ stats' = [stats EXCEPT !.punishUser = TRUE]
        /\ hs' = [hs EXCEPT ![h].pc = "reverse"]
        /\ IF u \notin members \/ isGuildOwner(u)
           THEN UNCHANGED << calls, members, dangerousRoles >>
           ELSE \E ok \in BOOLEAN, hr \in HoursRead(settings) :
                  LET night == isNightMode(settings, hr)
                      roleCalls == IF u \in dangerousRoles
                                   THEN {<< "removeRole", u >>} ELSE {}
                      punishCalls == IF op # "none" /\ ok
                                     THEN {<< op, u >>} ELSE {}
                      notifyCalls == IF ok /\ Truthy(settings, "notifyOwner")
                                     THEN {<< "notifyOwner", u >>} ELSE {}
                      lockCalls ==
                        IF ok /\ (\/ Truthy(settings, "lockdownOnTrigger")
                                  \/ night /\ Truthy(settings, "nightmodeAutoLock"))
                        THEN {<< "lockdown", u >>} ELSE {}
                  IN /\ op = "none" => ok
                     /\ calls' = calls \cup roleCalls \cup punishCalls
                                       \cup notifyCalls \cup lockCalls
                     /\ members' = IF ok /\ op \in {"ban", "kick"}
                                   THEN members \ {u} ELSE members
                     /\ dangerousRoles' = dangerousRoles \ {u}
  /\ UNCHANGED << slots, eventCap, focus, actor, clock, ticks, dbRow, trustedUsers,
                  settings, actionTracker, nEvents, audit, nUpdates, riskVars, sideVars >>

\* The reversal that follows punishUser in the handler.
Reverse(h) ==
  /\ hs[h].pc = "reverse"
  /\ LET op == IF hs[h].kind = "guildUpdate" /\ ~hs[h].nameChanged
               THEN "none" ELSE ReversalOp(hs[h].kind)
     IN IF op = "none"
        THEN /\ hs' = [hs EXCEPT ![h].pc = "logSecurityEvent"]
             /\ UNCHANGED calls
        ELSE /\ calls' = calls \cup {<< op, hs[h].user >>}
             /\ \E ok \in BOOLEAN :
                  IF ok \/ ReversalCatchesOwnError(op)
                  THEN hs' = [hs EXCEPT ![h].pc = "logSecurityEvent"]
                  ELSE hs' = [hs EXCEPT ![h] = Idle]
  /\ UNCHANGED << slots, eventCap, focus, actor, clock, ticks, dbRow, trustedUsers,
                  settings, actionTracker, members, dangerousRoles, nEvents,
                  stats, audit, nUpdates, riskVars, sideVars >>

AuditRecord(l) ==
  LET counted == l.kind \in CountedKinds IN
  [ guildId |-> GuildId, userId |-> l.user,
    eventType |-> Reason(l.kind),
    actionCount |-> IF counted THEN Num(l.count) ELSE Undef,
    limit |-> IF counted THEN l.limit ELSE Undef,
    nightMode |-> IF counted THEN (IF l.isNight THEN "true" ELSE "false")
                             ELSE "undefined" ]

\* a handler that takes the event out of the window when the audit write
\* fails
LogSecurityEvent_forgets(h) ==
  /\ hs[h].pc = "logSecurityEvent"
  /\ \E ok \in BOOLEAN :
       /\ audit' = IF ok THEN AuditRecord(hs[h]) ELSE audit
       /\ actionTracker' = IF ok THEN actionTracker ELSE << >>
  /\ hs' = [hs EXCEPT ![h] = Idle]
  /\ UNCHANGED << slots, eventCap, focus, actor, clock, ticks, dbRow, trustedUsers,
                  settings, members, dangerousRoles, nEvents,
                  stats, calls, nUpdates, riskVars, sideVars >>

\* await logSecurityEvent(...) inside its own try/catch
LogSecurityEvent(h) ==
  /\ hs[h].pc = "logSecurityEvent"
  /\ \E ok \in BOOLEAN :
       audit' = IF ok THEN AuditRecord(hs[h]) ELSE audit
  /\ hs' = [hs EXCEPT ![h] = Idle]
  /\ UNCHANGED << slots, eventCap, focus, actor, clock, ticks, dbRow, trustedUsers,
                  settings, actionTracker, members, dangerousRoles, nEvents,
                  stats, calls, nUpdates, riskVars, sideVars >>

\* time passes
Tick ==
  /\ ticks < MaxTicks
  /\ ticks' = ticks + 1
  /\ clock' = clock + TickMs
  /\ UNCHANGED << slots, eventCap, focus, actor, dbRow, trustedUsers, settings,
                  actionTracker, members, dangerousRoles, hs, nEvents, stats,
                  calls, audit, nUpdates, riskVars, sideVars >>

\* handleAntiNuke, subcommands enable, disable and config: the row is read
\* (and created when missing), then updated; the detector is not involved.
UpdateSettings ==
  /\ nUpdates < MaxUpdates
  /\ \E u \in SettingsUpdates :
       dbRow' = Merge(u, IF dbRow = NoRow THEN DefaultRow({}) ELSE dbRow)
  /\ nUpdates' = nUpdates + 1
  /\ UNCHANGED << slots, eventCap, focus, actor, clock, ticks, trustedUsers, settings,
                  actionTracker, members, dangerousRoles, hs, nEvents, stats,
                  calls, audit, riskVars, sideVars >>

HandlerStep ==
  \/ \E h \in Handlers : Dispatch(h)
  \/ \E h \in Handlers : GetSettings(h)
  \/ \E h \in Handlers : FetchAuditLogs(h)
  \/ \E h \in Handlers : IsWhitelisted(h)
  \/ \E h \in Handlers : TrackAction(h)
  \/ \E h \in Handlers : PunishUser(h)
  \/ \E h \in Handlers : Reverse(h)
  \/ \E h \in Handlers : LogSecurityEvent(h)

\* The listeners of a burst: the two whose handlers the sliding-window
\* contract is stated for (limit 3 in DEFAULT_SETTINGS).
BurstKinds == {"channelDelete", "guildBanAdd"}

Next == HandlerStep \/ Tick
NextCmd == HandlerStep \/ UpdateSettings

Init == InitNuke({"h1"}, EventKinds, MaxEvents)
InitBurst == InitNuke(Handlers, BurstKinds, MaxBurst)
InitCmd == InitNuke({"h1"}, EventKinds, MaxCmdEvents)

\* one handler activation at a time, every listener
Spec == Init /\ [][Next]_vars
\* two handler activations of one listener interleaving at their awaits
SpecBurst == InitBurst /\ [][Next]_vars
\* one handler activation at a time, with settings commands in between
SpecCmd == InitCmd /\ [][NextCmd]_vars

MaxTrustOps == 2    \* allow-list commands of a run

\* handleAntiNuke, subcommand whitelist (and handleTrusted add): the user's
\* row of discord_users is read or created and a row of trusted_users is
\* inserted; a row that is already there is reported as success
AddTrustedUser(u) ==
  /\ nUpdates < MaxTrustOps
  /\ trustedUsers' = trustedUsers \cup {TrustedRow(u)}
  /\ nUpdates' = nUpdates + 1
  /\ UNCHANGED << slots, eventCap, focus, actor, clock, ticks, dbRow, settings,
                  actionTracker, members, dangerousRoles, hs, nEvents, stats,
                  calls, audit, riskVars, sideVars >>

\* handleAntiNuke, subcommand unwhitelist (and handleTrusted remove): the
\* user's row of trusted_users is deleted
RemoveTrustedUser(u) ==
  /\ nUpdates < MaxTrustOps
  /\ trustedUsers' = trustedUsers \ {TrustedRow(u)}
  /\ nUpdates' = nUpdates + 1
  /\ UNCHANGED << slots, eventCap, focus, actor, clock, ticks, dbRow, settings,
                  actionTracker, members, dangerousRoles, hs, nEvents, stats,
                  calls, audit, riskVars, sideVars >>

\* a guild in which nobody has been allow-listed yet
InitTrust ==
  /\ SideIdle
  /\ slots = {"h1"}
  /\ eventCap = MaxCmdEvents
  /\ focus \in EventKinds
  /\ actor \in Users
  /\ clock = 0
  /\ ticks = 0
  /\ dbRow \in {NoRow, DefaultRow({})}
  /\ trustedUsers = {}
  /\ settings = NotLoaded
  /\ actionTracker = << >>
  /\ members = Users
  /\ dangerousRoles = {"owner", "mallory"}
  /\ hs = [h \in Handlers |-> Idle]
  /\ nEvents = 0
  /\ stats = NoStats
  /\ calls = {}
  /\ audit = NoRow
  /\ nUpdates = 0
  /\ RiskIdle
  /\ msgCap = 0
  /\ captchaVerified = [a \in Authors |-> FALSE]
  /\ warnings = [a \in Authors |-> 0]

NextTrust ==
  \/ HandlerStep
  \/ \E u \in Users : AddTrustedUser(u)
  \/ \E u \in Users : RemoveTrustedUser(u)

\* one handler activation at a time, with allow-list commands in between
SpecTrust == InitTrust /\ [][NextTrust]_vars


\* ======================================================================
\* Content risk engine (groq-engine.js)
\* ======================================================================
MaxWarnings == 4    \* largest previous_warnings_count of an input
MaxMsgs == 1        \* guild messages of a run

\* the result of arithmetic on undefined
NaN == [t |-> "NaN", v |-> 0]
\* x + n: undefined + n and NaN + n are NaN
JsAdd(x, n) == IF IsNum(x) THEN Num(x.v + n) ELSE NaN
\* Math.min(x, n): NaN if x is NaN
MathMin(x, n) == IF IsNum(x) THEN Num(IF x.v < n THEN x.v ELSE n) ELSE NaN
\* x <= n: false for undefined and NaN
JsLe(x, n) == IsNum(x) /\ x.v <= n

\* Sample messages with the number of spamPatterns, scamPatterns and
\* harassmentPatterns that test true on them and the result of detectLinks.
\*   spam:       /(.)\1{10,}/  /@everyone|@here/gi
\*               /\b(buy|shop|discount|free|prize)\b/gi
\*   scam:       /\b(free nitro|discord nitro|steam gift)\b/gi
\*               /\b(verify account|click link)\b/gi  /bit\.ly|tinyurl/gi
\*   harassment: /\b(kill yourself|kys|die)\b/gi
\*               /\b(idiot|stupid|dumb|loser)\b/gi
\*   links:      https?://..., www...., or name.(com|net|org|io|gg|xyz|co|me|
\*               tv|bot|dev|app)
Contents ==
  { [text |-> "hello", spam |-> 0, scam |-> 0, harassment |-> 0,
     links |-> FALSE],
    [text |-> "WIN FREE DISCORD NITRO bit.ly/xyz", spam |-> 1, scam |-> 2,
     harassment |-> 0, links |-> FALSE],
    [text |-> "@everyone buy now at http://shop.xyz aaaaaaaaaaaa", spam |-> 3,
     scam |-> 0, harassment |-> 0, links |-> TRUE],
    [text |-> "kys idiot", spam |-> 0, scam |-> 0, harassment |-> 2,
     links |-> FALSE],
    [text |-> "free nitro! verify account at tinyurl.com/x @here you stupid loser, die !!!!!!!!!!!",
     spam |-> 3, scam |-> 3, harassment |-> 2, links |-> TRUE] }

\* calculateAccountAge and calculateJoinAge results around the thresholds
AccountAges == {3, 6, 7, 200}
JoinAges == {4, 5, 9, 10}

\* the moderation inputs
Inputs ==
  [ user_id : Authors,
    captcha_verified : BOOLEAN,
    user_account_age_days : AccountAges,
    server_join_age_minutes : JoinAges,
    previous_warnings_count : 0..MaxWarnings,
    links_present : BOOLEAN,
    message_content : Contents ]

\* What JSON.parse hands to adjustForUserHistory: an object that may lack
\* risk_score or recommended_action or carry values outside the prompt's
\* format.
AiScores == {-5, 0, 30, 31, 65, 66, 100, 150}
AiActions == {"ALLOW", "WARN", "DELETE", "MUTE", "KICK", "CAPTCHA", "BAN"}
AiResponses ==
  { [risk_score |-> sc, recommended_action |-> a] :
      sc \in AiScores, a \in AiActions }
  \cup { [risk_score |-> sc] : sc \in AiScores }
  \cup { [recommended_action |-> a] : a \in AiActions }
  \cup { << >> }

\* risk_score <= 30 ? 'SAFE' : risk_score <= 65 ? 'SUSPICIOUS' : 'DANGEROUS'
RiskLevel(risk_score) ==
  IF JsLe(risk_score, 30) THEN "SAFE"
  ELSE IF JsLe(risk_score, 65) THEN "SUSPICIOUS"
  ELSE "DANGEROUS"

\* the check user_id === process.env.DISCORD_OWNER_ID, left out
isBotOwner_unchecked(user_id) == FALSE

\* user_id === process.env.DISCORD_OWNER_ID
isBotOwner(user_id) == user_id = DISCORD_OWNER_ID

OwnerDecision ==
  [ risk_score |-> Num(0), risk_level |-> "SAFE", detected_categories |-> {},
    recommended_action |-> "ALLOW",
    reasoning |-> "Bot owner - moderation bypassed" ]

CaptchaDecision ==
  [ risk_score |-> Num(50), risk_level |-> "SUSPICIOUS",
    detected_categories |-> {"NEW_USER_UNVERIFIED"},
    recommended_action |-> "CAPTCHA",
    reasoning |-> "New or flagged user has not completed CAPTCHA verification." ]

\* shouldRequireCaptcha with the membership threshold of fallbackAnalysis
shouldRequireCaptcha_joinFive(in) ==
  IF in.captcha_verified THEN FALSE
  ELSE \/ in.user_account_age_days < 7
       \/ in.server_join_age_minutes < 5
       \/ in.previous_warnings_count > 0

shouldRequireCaptcha(in) ==
  IF in.captcha_verified THEN FALSE
  ELSE \/ in.user_account_age_days < 7
       \/ in.server_join_age_minutes < 10
       \/ in.previous_warnings_count > 0

\* the escalation of a warning one warning late
EscalatedAction_late(recommended_action, w) ==
  IF w >= 4 /\ recommended_action = "WARN" THEN "MUTE"
  ELSE IF w >= 2 /\ recommended_action = "DELETE" THEN "MUTE"
  ELSE IF w >= 4 /\ recommended_action = "MUTE" THEN "KICK"
  ELSE recommended_action

\* the action escalation of adjustForUserHistory
EscalatedAction(recommended_action, w) ==
  IF w >= 3 /\ recommended_action = "WARN" THEN "MUTE"
  ELSE IF w >= 2 /\ recommended_action = "DELETE" THEN "MUTE"
  ELSE IF w >= 4 /\ recommended_action = "MUTE" THEN "KICK"
  ELSE recommended_action

adjustForUserHistory(aiResponse, in) ==
  LET w == in.previous_warnings_count
      risk_score0 == GetNum(aiResponse, "risk_score")
      recommended_action0 == GetStr(aiResponse, "recommended_action")
      risk_score == IF w > 0 THEN MathMin(JsAdd(risk_score0, w * 10), 100)
                    ELSE risk_score0
      recommended_action == IF w > 0
                            THEN EscalatedAction(recommended_action0, w)
                            ELSE recommended_action0
  IN [ risk_score |-> risk_score,
       risk_level |-> RiskLevel(risk_score),
       detected_categories |-> {},
       recommended_action |-> recommended_action,
       reasoning |-> "classifier" ]

\* SUSPICIOUS with two or more warnings answered with a warning
determineAction_lenient(score, riskLevel, warningCount) ==
  IF riskLevel = "SAFE" THEN "ALLOW"
  ELSE IF riskLevel = "SUSPICIOUS"
  THEN IF warningCount = 1 THEN "DELETE" ELSE "WARN"
  ELSE IF score >= 85 /\ warningCount >= 2 THEN "KICK"
  ELSE IF score >= 70 THEN "MUTE"
  ELSE "DELETE"

\* the DANGEROUS band without its KICK row
determineAction_noKick(score, riskLevel, warningCount) ==
  IF riskLevel = "SAFE" THEN "ALLOW"
  ELSE IF riskLevel = "SUSPICIOUS"
  THEN IF warningCount = 0 THEN "WARN"
       ELSE IF warningCount = 1 THEN "DELETE"
       ELSE "MUTE"
  ELSE IF score >= 70 THEN "MUTE"
  ELSE "DELETE"

determineAction(score, riskLevel, warningCount) ==
  IF riskLevel = "SAFE" THEN "ALLOW"
  ELSE IF riskLevel = "SUSPICIOUS"
  THEN IF warningCount = 0 THEN "WARN"
       ELSE IF warningCount = 1 THEN "DELETE"
       ELSE "MUTE"
  ELSE IF riskLevel = "DANGEROUS"
  THEN IF score >= 85 /\ warningCount >= 2 THEN "KICK"
       ELSE IF score >= 70 THEN "MUTE"
       ELSE "DELETE"
  ELSE "WARN"

fallbackAnalysis(in) ==
  IF isBotOwner(in.user_id) THEN OwnerDecision
  ELSE
    LET c == in.message_content
        w == in.previous_warnings_count
        newAccount == in.user_account_age_days < 7
        postJoin == in.server_join_age_minutes < 5
        detectedCategories ==
          (IF c.spam > 0 THEN {"SPAM"} ELSE {})
          \cup (IF c.scam > 0 THEN {"SCAM"} ELSE {})
          \cup (IF c.harassment > 0 THEN {"HARASSMENT"} ELSE {})
          \cup (IF newAccount THEN {"NEW_ACCOUNT"} ELSE {})
          \cup (IF postJoin THEN {"IMMEDIATE_POST_JOIN"} ELSE {})
          \cup (IF in.links_present THEN {"CONTAINS_LINKS"} ELSE {})
          \cup (IF w > 0 THEN {"REPEAT_OFFENDER"} ELSE {})
        sum == c.spam * 20 + c.scam * 30 + c.harassment * 25
               + (IF newAccount THEN 10 ELSE 0)
               + (IF postJoin THEN 15 ELSE 0)
               + (IF in.links_present THEN 10 ELSE 0)
               + (IF w > 0 THEN w * 10 ELSE 0)
        riskScore == IF sum < 100 THEN sum ELSE 100
        risk_level == RiskLevel(Num(riskScore))
    IN [ risk_score |-> Num(riskScore),
         risk_level |-> risk_level,
         detected_categories |-> detectedCategories,
         recommended_action |-> determineAction(riskScore, risk_level, w),
         reasoning |-> "Fallback analysis" ]

\* the ways the try block of analyzeMessageWithGroq throws: the request is
\* rejected (network error, HTTP error), the body is not JSON, or the body
\* is the JSON value null, which adjustForUserHistory cannot destructure
ClassifierFailures == {"rejected", "unparsable", "null"}

\* an exception leaving analyzeMessageWithGroq
Raised == [ raised |-> TRUE ]

\* a catch block that logs and rethrows
onClassifierError_rethrows(in) == Raised

\* the catch block of analyzeMessageWithGroq
onClassifierError(in) == fallbackAnalysis(in)

\* analyzeMessageWithGroq as a function of the input and of what the
\* classifier call produces (beh: a parsed object or a failure)
analyzeMessageWithGroq(in, beh) ==
  IF isBotOwner(in.user_id) THEN OwnerDecision
  ELSE IF shouldRequireCaptcha(in) THEN CaptchaDecision
  ELSE IF Has(beh, "failure") THEN onClassifierError(in)
  ELSE adjustForUserHistory(beh, in)

\* ---------------------------------------------- analyzeMessageWithGroq
msgVars ==
  << msgCap, message, msgPc, captchaVerified, warnings, enforced, modLog,
     msgTrace,
     nMsgs >>

\* the owner bypass
OwnerBypass ==
  /\ evalPc = "start"
  /\ isBotOwner(input.user_id)
  /\ decision' = OwnerDecision
  /\ evalPc' = "done"
  /\ UNCHANGED << input, classifierCalled, completion, msgVars, nukeVars, sideVars >>

\* the quick check for the CAPTCHA requirement
ChallengeGate ==
  /\ evalPc = "start"
  /\ ~isBotOwner(input.user_id)
  /\ shouldRequireCaptcha(input)
  /\ decision' = CaptchaDecision
  /\ evalPc' = "done"
  /\ UNCHANGED << input, classifierCalled, completion, msgVars, nukeVars, sideVars >>

\* groq.chat.completions.create is called and awaited
CallClassifier ==
  /\ evalPc = "start"
  /\ ~isBotOwner(input.user_id)
  /\ ~shouldRequireCaptcha(input)
  /\ classifierCalled' = TRUE
  /\ evalPc' = "classifier"
  /\ UNCHANGED << input, decision, completion, msgVars, nukeVars, sideVars >>

\* the completion's content parses to an object
ClassifierAnswers ==
  /\ evalPc = "classifier"
  /\ \E parsed \in AiResponses :
       /\ completion' = parsed
       /\ decision' = adjustForUserHistory(parsed, input)
  /\ evalPc' = "done"
  /\ UNCHANGED << input, classifierCalled, msgVars, nukeVars, sideVars >>

\* the call rejects, or JSON.parse throws, or the content parses to null so
\* that the destructuring in adjustForUserHistory throws: the catch block
\* returns the fallback analysis
ClassifierFails ==
  /\ evalPc = "classifier"
  /\ \E kind \in ClassifierFailures : completion' = [failure |-> kind]
  /\ decision' = onClassifierError(input)
  /\ evalPc' = "done"
  /\ UNCHANGED << input, classifierCalled, msgVars, nukeVars, sideVars >>

\* ------------------------------------------------------- handleMessage
\* the ages of the authors of handled messages: on either side of the
\* thresholds of 7 days, 5 and 10 minutes
MessageAccountAges == {6, 200}
MessageJoinAges == {4, 10}

\* the MessageCreate listener: a guild message of a user that is not a bot
MessageCreate ==
  /\ msgPc = "idle"
  /\ nMsgs < msgCap
  /\ nMsgs' = nMsgs + 1
  /\ \E a \in Authors, c \in Contents, age \in MessageAccountAges,
        join \in MessageJoinAges :
       message' = [ author |-> a, content |-> c, accountAgeDays |-> age,
                    joinAgeMinutes |-> join ]
  /\ enforced' = {}
  /\ modLog' = NoRow
  /\ msgTrace' = NoTrace
  /\ msgPc' = "handleMessage"
  /\ UNCHANGED << input, evalPc, decision, classifierCalled, completion,
                  msgCap, captchaVerified, warnings, nukeVars, sideVars >>

\* moderation is skipped for the bot owner
OwnerSkip ==
  /\ msgPc = "handleMessage"
  /\ isBotOwner(message.author)
  /\ msgPc' = "idle"
  /\ UNCHANGED << input, evalPc, decision, classifierCalled, completion,
                  msgCap, message, captchaVerified, warnings, enforced, modLog,
                  msgTrace, nMsgs, nukeVars, sideVars >>

\* verification is enabled, the message is outside the verification channel
\* and its author lacks the verified role: the message is deleted and
\* logged; an error of the deletion or of a persistence call ends the block
\* in its own catch
VerificationBlock ==
  /\ msgPc = "handleMessage"
  /\ ~isBotOwner(message.author)
  /\ \E failed \in {"none", "delete", "getOrCreateUser", "logMessage",
                    "logModerationAction"} :
       /\ enforced' = IF failed = "delete" THEN enforced
                      ELSE enforced \cup {<< "delete", message.author >>}
       /\ modLog' = IF failed = "none"
                    THEN [ userId |-> message.author, riskScore |-> Num(30),
                           riskLevel |-> "SUSPICIOUS",
                           recommendedAction |-> "DELETE",
                           actionTaken |-> "DELETE" ]
                    ELSE modLog
       /\ msgTrace' = [msgTrace EXCEPT !.failed = failed,
                                       !.logged = failed # "none",
                                       !.decided = failed # "delete"]
  /\ msgPc' = "idle"
  /\ UNCHANGED << input, evalPc, decision, classifierCalled, completion,
                  msgCap, message, captchaVerified, warnings, nMsgs, nukeVars, sideVars >>

\* The persistence calls of handleMessage before the analysis that throw
\* when their query fails; getRecentMessages and getUserWarnings answer []
\* instead.
ReadFailures == {"getOrCreateUser", "getOrCreateServerMember", "logMessage"}

\* the message passes the verification check: the author's record and
\* warnings are read, the message is logged and analyzeMessageWithGroq is
\* called with the moderation input; a persistence call that throws ends
\* handleMessage in the listener's catch
Moderate ==
  /\ msgPc = "handleMessage"
  /\ ~isBotOwner(message.author)
  /\ \E failed \in {"none"} \cup ReadFailures,
        warningsRead \in {warnings[message.author], 0} :
       IF failed # "none"
       THEN /\ msgTrace' = [msgTrace EXCEPT !.failed = failed, !.logged = TRUE]
            /\ msgPc' = "idle"
            /\ UNCHANGED << input, decision, classifierCalled, completion,
                            evalPc >>
       ELSE /\ input' = [ user_id |-> message.author,
                          captcha_verified |-> captchaVerified[message.author],
                          user_account_age_days |-> message.accountAgeDays,
                          server_join_age_minutes |-> message.joinAgeMinutes,
                          previous_warnings_count |-> warningsRead,
                          links_present |-> message.content.links,
                          message_content |-> message.content ]
            /\ decision' = NoDecision
            /\ classifierCalled' = FALSE
            /\ completion' = NoResponse
            /\ evalPc' = "start"
            /\ msgPc' = "analyze"
            /\ msgTrace' = msgTrace
  /\ UNCHANGED << msgCap, message, captchaVerified, warnings, enforced, modLog,
                  nMsgs, nukeVars, sideVars >>

\* ---------------------------------------------------------- actions.js
\* a handler is entered, a platform call is attempted and throws, a platform
\* call is applied
Enter(st, handler) == [st EXCEPT !.handlers = Append(@, handler)]
Attempt(st, call) == [st EXCEPT !.attempts = Append(@, call)]
Apply(st, call) ==
  [st EXCEPT !.attempts = Append(@, call),
             !.applied = @ \cup {call},
             !.deleted = @ \/ call = "delete"]

\* if (message.deletable) await message.delete(): the runs in which it
\* returns and those in which it throws; the deletion of a message that is
\* already deleted is rejected by the platform
DeleteReturns(st, standing) ==
  IF ~standing.deletable THEN {st}
  ELSE IF st.deleted THEN {}
  ELSE {Apply(st, "delete")}
DeleteThrows(st, standing) ==
  IF ~standing.deletable THEN {} ELSE {Attempt(st, "delete")}

\* handleDelete: errors end in its catch; the notifications after the
\* deletion change nothing that is recorded here
handleDelete(st, standing) ==
  LET s0 == Enter(st, "handleDelete")
  IN DeleteReturns(s0, standing) \cup DeleteThrows(s0, standing)

\* handleMute: the message is deleted, then the member is timed out; when
\* the member cannot be muted, or any call of the try block throws (the
\* deletion, the timeout, the notification after it), handleDelete runs
handleMute(st, standing) ==
  LET s0 == Enter(st, "handleMute")
  IN UNION { handleDelete(s, standing) : s \in DeleteThrows(s0, standing) }
     \cup
     UNION { IF ~standing.moderatable THEN handleDelete(s, standing)
             ELSE {Apply(s, "mute")}
                  \cup handleDelete(Apply(s, "mute"), standing)
                  \cup handleDelete(Attempt(s, "mute"), standing)
             : s \in DeleteReturns(s0, standing) }

\* handleKick: the message is deleted, then the member is kicked; when the
\* member cannot be kicked, or any call of the try block throws, handleMute
\* runs
handleKick(st, standing) ==
  LET s0 == Enter(st, "handleKick")
  IN UNION { handleMute(s, standing) : s \in DeleteThrows(s0, standing) }
     \cup
     UNION { IF ~standing.kickable THEN handleMute(s, standing)
             ELSE {Apply(s, "kick")}
                  \cup handleMute(Apply(s, "kick"), standing)
                  \cup handleMute(Attempt(s, "kick"), standing)
             : s \in DeleteReturns(s0, standing) }

\* handleWarn and handleCaptchaRequired: the notice is sent, or the send
\* throws and the handler's catch logs it
handleWarn(st) ==
  LET s0 == Enter(st, "handleWarn")
  IN {Apply(s0, "warn"), Attempt(s0, "warn")}
handleCaptchaRequired(st) ==
  LET s0 == Enter(st, "handleCaptchaRequired")
  IN {Apply(s0, "captcha"), Attempt(s0, "captcha")}

\* the standings that matter to the handler of an action: a property the
\* handler never reads is recorded as false
StandingsFor(recommended_action) ==
  { st \in Standings :
      /\ st.kickable => recommended_action = "KICK"
      /\ st.moderatable => recommended_action \in {"KICK", "MUTE"}
      /\ st.deletable => recommended_action \in {"KICK", "MUTE", "DELETE"} }

\* the runs of the switch of executeAction
executeActionRuns(recommended_action, standing) ==
  CASE recommended_action = "CAPTCHA" -> handleCaptchaRequired(NoRun)
    [] recommended_action = "WARN" -> handleWarn(NoRun)
    [] recommended_action = "DELETE" -> handleDelete(NoRun, standing)
    [] recommended_action = "MUTE" -> handleMute(NoRun, standing)
    [] recommended_action = "KICK" -> handleKick(NoRun, standing)
    [] OTHER -> {NoRun}

\* executeAction without its default case
executeAction_asRecommended(recommended_action) == recommended_action

\* the value executeAction returns: no handler lets an error out, so the
\* catch that returns 'ERROR' is not reached
executeAction(recommended_action) ==
  IF recommended_action \in {"ALLOW", "CAPTCHA", "WARN", "DELETE", "MUTE", "KICK"}
  THEN recommended_action
  ELSE "ALLOW"

\* The persistence calls of handleMessage after the enforcement:
\* logModerationAction and addWarning throw when their insert fails,
\* updateAverageRiskScore ignores the errors of its queries.
WriteFailures == {"logModerationAction", "addWarning", "updateAverageRiskScore"}

\* executeAction, logModerationAction, addWarning, updateAverageRiskScore
ExecuteAction ==
  /\ msgPc = "analyze"
  /\ evalPc = "done"
  /\ LET actionTaken == executeAction(decision.recommended_action)
         warns == actionTaken # "ALLOW" /\ actionTaken # "CAPTCHA"
     IN \E standing \in StandingsFor(decision.recommended_action),
           failed \in {"none"} \cup WriteFailures :
          \E run \in executeActionRuns(decision.recommended_action, standing) :
            /\ failed = "addWarning" => warns
            /\ enforced' = enforced \cup
                             { << op, message.author >> : op \in run.applied }
            /\ modLog' = IF failed = "logModerationAction" THEN modLog
                         ELSE [ userId |-> message.author,
                                riskScore |-> decision.risk_score,
                                riskLevel |-> decision.risk_level,
                                recommendedAction |-> decision.recommended_action,
                                actionTaken |-> actionTaken ]
            /\ warnings' =
                 IF warns /\ failed \notin {"logModerationAction", "addWarning"}
                 THEN [warnings EXCEPT ![message.author] = @ + 1]
                 ELSE warnings
            /\ msgTrace' =
                 [ failed |-> failed,
                   logged |-> failed \in {"logModerationAction", "addWarning"},
                   decided |-> TRUE,
                   standing |-> standing,
                   run |-> run ]
  /\ input' = NoInput
  /\ decision' = NoDecision
  /\ classifierCalled' = FALSE
  /\ completion' = NoResponse
  /\ evalPc' = "idle"
  /\ msgPc' = "idle"
  /\ UNCHANGED << msgCap, message, captchaVerified, nMsgs, nukeVars, sideVars >>

\* the detector's state in runs of the risk engine
NukeIdle ==
  /\ slots = {}
  /\ eventCap = 0
  /\ focus = "channelDelete"
  /\ actor = "mallory"
  /\ clock = 0
  /\ ticks = 0
  /\ dbRow = NoRow
  /\ trustedUsers = {}
  /\ settings = NotLoaded
  /\ actionTracker = << >>
  /\ members = Users
  /\ dangerousRoles = {}
  /\ hs = [h \in Handlers |-> Idle]
  /\ nEvents = 0
  /\ stats = NoStats
  /\ calls = {}
  /\ audit = NoRow
  /\ nUpdates = 0

\* analyzeMessageWithGroq called with any input
InitCall ==
  /\ input \in Inputs
  /\ evalPc = "start"
  /\ decision = NoDecision
  /\ classifierCalled = FALSE
  /\ completion = NoResponse
  /\ message = NoMessage
  /\ msgPc = "idle"
  /\ enforced = {}
  /\ modLog = NoRow
  /\ msgTrace = NoTrace
  /\ nMsgs = 0
  /\ msgCap = 0
  /\ captchaVerified = [a \in Authors |-> FALSE]
  /\ warnings = [a \in Authors |-> 0]

\* the clear-warnings command: clearUserWarnings deletes the target's rows
\* of user_warnings in the guild, or throws on a failed delete and leaves
\* them
handleClearWarnings ==
  /\ \E targetUser \in Authors, failed \in BOOLEAN :
       warnings' = IF failed THEN warnings
                   ELSE [warnings EXCEPT ![targetUser] = 0]
  /\ UNCHANGED << input, decision, classifierCalled, completion, evalPc,
                  msgCap, message, msgPc, captchaVerified, enforced, modLog,
                  msgTrace, nMsgs, nukeVars, sideVars >>

\* guild messages arriving at the message handler
InitMessages ==
  /\ RiskIdle
  /\ msgCap = MaxMsgs
  /\ \E v \in BOOLEAN :
       captchaVerified = [a \in Authors |-> a # DISCORD_OWNER_ID /\ v]
  /\ \E w \in 0..MaxWarnings :
       warnings = [a \in Authors |-> IF a = DISCORD_OWNER_ID THEN 0 ELSE w]

InitEval == NukeIdle /\ SideIdle /\ (InitCall \/ InitMessages)

NextEval ==
  \/ OwnerBypass
  \/ ChallengeGate
  \/ CallClassifier
  \/ ClassifierAnswers
  \/ ClassifierFails
  \/ MessageCreate
  \/ OwnerSkip
  \/ VerificationBlock
  \/ Moderate
  \/ ExecuteAction

\* the content risk engine: direct evaluations and handled guild messages
SpecEval == InitEval /\ [][NextEval]_vars

\* the open warnings of the author before the first message: none, or enough
\* for the escalation of DELETE
WarningsAtStart == {0, 2}

InitWarn ==
  /\ NukeIdle
  /\ SideIdle
  /\ RiskIdle
  /\ msgCap = MaxMsgs
  /\ \E v \in BOOLEAN :
       captchaVerified = [a \in Authors |-> a # DISCORD_OWNER_ID /\ v]
  /\ \E w \in WarningsAtStart :
       warnings = [a \in Authors |-> IF a = DISCORD_OWNER_ID THEN 0 ELSE w]

NextWarn ==
  \/ ChallengeGate
  \/ CallClassifier
  \/ ClassifierAnswers
  \/ ClassifierFails
  \/ MessageCreate
  \/ OwnerSkip
  \/ VerificationBlock
  \/ Moderate
  \/ ExecuteAction
  \/ handleClearWarnings

\* handled guild messages and the clear-warnings command
SpecWarn == InitWarn /\ [][NextWarn]_vars

\* ======================================================================
\* isNightMode and getEffectiveLimit on any policy
\* ======================================================================
\* r without the keys ks
Without(r, ks) == [k \in DOMAIN r \ ks |-> r[k]]
\* key k absent, or present with one of vals
Opt(k, vals) == { << >> } \cup { (k :> v) : v \in vals }

\* The hour that parseInt reads for the local hour h: with hour12: false
\* the hour of midnight is formatted "00" or, under the 24-hour cycle that
\* counts 1..24, "24".
HourStrings(h) == IF h = 0 THEN {0, 24} ELSE {h}

\* the keys of a policy that the night-mode functions read
NightKeys ==
  { "nightmodeEnabled", "nightmodeStartHour", "nightmodeEndHour",
    "nightmodeTimezone", "nightmodeStricterLimits" }

\* a settings object: DEFAULT_SETTINGS with the keys of u set and the keys
\* of gone absent
Policy(u, gone) == u @@ Without(DEFAULT_SETTINGS, gone)

\* every start hour, end hour and local hour, night mode enabled
HourCalls ==
  { [ pc |-> "start",
      settings |-> Policy([ nightmodeEnabled |-> TRUE,
                            nightmodeStartHour |-> st,
                            nightmodeEndHour |-> en ], {}),
      h |-> h, currentHour |-> ch, limitType |-> "banLimit" ] :
    st \in Hours, en \in Hours,
    <<h, ch>> \in { <<x, y>> \in Hours \X (0..24) : y \in HourStrings(x) } }

\* every combination of present, absent and zero keys, at a few hours
FlagCalls ==
  { [ pc |-> "start",
      settings |-> Policy(((("nightmodeEnabled" :> o[1]) @@ o[2]) @@ o[3])
                            @@ ((o[4] @@ ("nightmodeStricterLimits" :> o[5]))
                                @@ o[6]),
                          NightKeys \cup {NightKey(lt)}),
      h |-> hc[1], currentHour |-> hc[2], limitType |-> lt ] :
    o \in BOOLEAN \X Opt("nightmodeStartHour", {0, 1, 23})
            \X Opt("nightmodeEndHour", {0, 5, 7})
            \X Opt("nightmodeTimezone", TimeZones)
            \X BOOLEAN
            \X UNION { Opt(NightKey(k), {0, 1}) :
                         k \in {"banLimit", "channelDeleteLimit"} },
    lt \in {"banLimit", "channelDeleteLimit"},
    hc \in { <<x, y>> \in {0, 3, 12, 23} \X (0..24) : y \in HourStrings(x) } }

\* a handler asks whether it is night
IsNightMode ==
  /\ nightCall.pc = "start"
  /\ nightCall' =
       [ pc |-> "checked",
         settings |-> nightCall.settings,
         h |-> nightCall.h,
         currentHour |-> nightCall.currentHour,
         limitType |-> nightCall.limitType,
         isNight |-> isNightMode(nightCall.settings, nightCall.currentHour) ]
  /\ UNCHANGED << nukeVars, riskVars, lock, race, session >>

\* a handler asks for the limit in force
GetEffectiveLimit ==
  /\ nightCall.pc = "checked"
  /\ nightCall' =
       [ pc |-> "done",
         settings |-> nightCall.settings,
         h |-> nightCall.h,
         currentHour |-> nightCall.currentHour,
         limitType |-> nightCall.limitType,
         isNight |-> nightCall.isNight,
         limit |-> getEffectiveLimit(nightCall.settings, nightCall.limitType,
                                     nightCall.currentHour) ]
  /\ UNCHANGED << nukeVars, riskVars, lock, race, session >>

\* the content risk engine at rest
RiskOff ==
  /\ RiskIdle
  /\ msgCap = 0
  /\ captchaVerified = [a \in Authors |-> FALSE]
  /\ warnings = [a \in Authors |-> 0]

InitNight ==
  /\ NukeIdle
  /\ RiskOff
  /\ lock = NoLock
  /\ race = NoRace
  /\ session = NoSession
  /\ nightCall \in HourCalls \cup FlagCalls

NextNight == IsNightMode \/ GetEffectiveLimit

\* the night-mode functions on every policy and hour
SpecNight == InitNight /\ [][NextNight]_vars

\* ======================================================================
\* initiateServerLockdown and unlockServer on a guild's channels
\* ======================================================================
MaxLockOps == 3     \* lockdowns and unlocks of one run

\* the value of SendMessages in a channel's overwrite for the default role
\* (guild.id): true, false or null
SendStates == {"allow", "deny", "unset"}
\* the names initiateServerLockdown gives its notification channel and
\* unlockServer looks for (each starts with an emoji in the source)
LockdownNames == {"server-lockdown", "night-lockdown"}
\* what guild.channels.create returns: a text channel without overwrites
LockdownChannel(isNight) ==
  [ name |-> IF isNight THEN "night-lockdown" ELSE "server-lockdown",
    text |-> TRUE, send |-> "unset" ]

\* guild.channels.cache of a guild that was never locked down: two channels
\* in cache order, text-based or not (a category), with any overwrite
Guilds ==
  { << [name |-> "general", text |-> t[1], send |-> p[1]],
       [name |-> "staff", text |-> t[2], send |-> p[2]] >> :
    t \in BOOLEAN \X BOOLEAN, p \in SendStates \X SendStates }

\* The points at which a Discord call of the loop may be rejected: 0 for
\* none, i for the call on channel i, above that the calls after the loop.
TextIndexes(chs) == { i \in 1..Len(chs) : chs[i].text }
LockdownFailures(chs) ==
  {0} \cup TextIndexes(chs) \cup {Len(chs) + 1, Len(chs) + 2}
UnlockFailures(chs) == {0} \cup TextIndexes(chs)

\* the text-based channels before position stop with SendMessages: false
DenySend(chs, stop) ==
  [ i \in 1..Len(chs) |->
      IF chs[i].text /\ i < stop THEN [chs[i] EXCEPT !.send = "deny"]
      ELSE chs[i] ]

\* initiateServerLockdown: the overwrite edits in cache order, then the
\* notification channel, then the embed; the first rejected call ends it
initiateServerLockdown(chs, isNight, failAt) ==
  IF failAt \in 1..Len(chs) THEN DenySend(chs, failAt)
  ELSE IF failAt = Len(chs) + 1 THEN DenySend(chs, failAt)
  ELSE Append(DenySend(chs, Len(chs) + 1), LockdownChannel(isNight))

\* the loop of unlockServer from channel i on: a channel with a lockdown
\* name is deleted, any other text-based channel gets SendMessages: null
RECURSIVE UnlockFrom(_, _, _)
UnlockFrom(chs, i, stop) ==
  IF i > Len(chs) THEN << >>
  ELSE IF i >= stop \/ ~chs[i].text
  THEN << chs[i] >> \o UnlockFrom(chs, i + 1, stop)
  ELSE IF chs[i].name \in LockdownNames
  THEN UnlockFrom(chs, i + 1, stop)
  ELSE << [chs[i] EXCEPT !.send = "unset"] >> \o UnlockFrom(chs, i + 1, stop)

unlockServer(chs, failAt) ==
  UnlockFrom(chs, 1, IF failAt = 0 THEN Len(chs) + 1 ELSE failAt)

\* punishUser or a single-strike handler locks the guild down
InitiateServerLockdown ==
  /\ lock.pc = "run"
  /\ lock.nOps < MaxLockOps
  /\ \E isNight \in BOOLEAN, failAt \in LockdownFailures(lock.channels) :
       LET after == initiateServerLockdown(lock.channels, isNight, failAt)
           first == lock.entered = 0
       IN lock' =
            [ pc |-> "run",
              channels |-> after,
              before |-> IF first THEN lock.channels ELSE lock.before,
              entered |-> lock.entered + 1,
              unlocked |-> FALSE,
              failed |-> IF first THEN failAt # 0
                         ELSE lock.failed \/ failAt # 0,
              reentered |-> ~first,
              previous |-> lock.channels,
              nOps |-> lock.nOps + 1 ]
  /\ UNCHANGED << nukeVars, riskVars, nightCall, race, session >>

\* the antinuke unlock command
UnlockServer ==
  /\ lock.pc = "run"
  /\ lock.nOps < MaxLockOps
  /\ \E failAt \in UnlockFailures(lock.channels) :
       lock' =
         [ pc |-> "run",
           channels |-> unlockServer(lock.channels, failAt),
           before |-> lock.before,
           entered |-> 0,
           unlocked |-> lock.entered > 0,
           failed |-> lock.failed \/ failAt # 0,
           reentered |-> FALSE,
           previous |-> lock.channels,
           nOps |-> lock.nOps + 1 ]
  /\ UNCHANGED << nukeVars, riskVars, nightCall, race, session >>

InitLock ==
  /\ NukeIdle
  /\ RiskOff
  /\ nightCall = NoNight
  /\ race = NoRace
  /\ session = NoSession
  /\ \E chs \in Guilds :
       lock = [ pc |-> "run", channels |-> chs, before |-> chs,
                entered |-> 0, unlocked |-> FALSE, failed |-> FALSE,
                reentered |-> FALSE, previous |-> chs, nOps |-> 0 ]

NextLock == InitiateServerLockdown \/ UnlockServer

\* lockdowns and unlocks of one guild
SpecLock == InitLock /\ [][NextLock]_vars

\* ======================================================================
\* Two messages of one author handled concurrently
\* ======================================================================
\* what the classifier does with the two messages
RaceBehaviours ==
  { [failure |-> "rejected"],
    [risk_score |-> 31, recommended_action |-> "WARN"],
    [risk_score |-> 0, recommended_action |-> "ALLOW"] }

\* the moderation input handleMessage builds for a message of the author
\* after reading previous_warnings_count warnings
RaceInput(content, verified, previous_warnings_count) ==
  [ user_id |-> "mallory",
    captcha_verified |-> verified,
    user_account_age_days |-> 200,
    server_join_age_minutes |-> 10,
    previous_warnings_count |-> previous_warnings_count,
    links_present |-> content.links,
    message_content |-> content ]

\* handleMessage adds a warning unless the action taken is ALLOW or CAPTCHA
AddsWarning(d) ==
  executeAction(d.recommended_action) \notin {"ALLOW", "CAPTCHA"}

Activations == {"m1", "m2"}

\* await getUserWarnings(dbUser.id, guild.id)
GetUserWarnings(m) ==
  /\ race.pc = "run"
  /\ race.act[m].pc = "getUserWarnings"
  /\ race' = [race EXCEPT !.act[m].pc = "analyze",
                          !.act[m].read = race.warnings]
  /\ UNCHANGED << nukeVars, riskVars, nightCall, lock, session >>

\* await analyzeMessageWithGroq(moderationInput), await executeAction(...)
AnalyzeAndExecute(m) ==
  /\ race.pc = "run"
  /\ race.act[m].pc = "analyze"
  /\ race' = [race EXCEPT
                !.act[m].pc = "addWarning",
                !.act[m].decision =
                   analyzeMessageWithGroq(
                     RaceInput(race.act[m].content, race.verified,
                               race.act[m].read),
                     race.behaviour)]
  /\ UNCHANGED << nukeVars, riskVars, nightCall, lock, session >>

\* await logModerationAction(...), await addWarning(...)
AddWarning(m) ==
  /\ race.pc = "run"
  /\ race.act[m].pc = "addWarning"
  /\ race' = [race EXCEPT
                !.act[m].pc = "done",
                !.warnings = IF AddsWarning(race.act[m].decision)
                             THEN @ + 1 ELSE @]
  /\ UNCHANGED << nukeVars, riskVars, nightCall, lock, session >>

InitRace ==
  /\ NukeIdle
  /\ RiskOff
  /\ nightCall = NoNight
  /\ lock = NoLock
  /\ session = NoSession
  /\ \E c1 \in Contents, c2 \in Contents, w \in 0..MaxWarnings,
        v \in BOOLEAN, beh \in RaceBehaviours :
       race = [ pc |-> "run", warnings |-> w, initial |-> w, verified |-> v,
                behaviour |-> beh,
                act |-> [ m \in Activations |->
                            [ pc |-> "getUserWarnings",
                              content |-> IF m = "m1" THEN c1 ELSE c2,
                              read |-> 0,
                              decision |-> NoDecision ] ] ]

NextRace ==
  \E m \in Activations :
    GetUserWarnings(m) \/ AnalyzeAndExecute(m) \/ AddWarning(m)

\* two guild messages of one author, their handlers interleaving at awaits
SpecRace == InitRace /\ [][NextRace]_vars

\* ======================================================================
\* CAPTCHA sessions (supabase.js, handleVerify, handleDirectMessage)
\* ======================================================================
MaxSessions == 2       \* /verify commands of a run
MaxSubmissions == 4    \* direct messages with a code of a run

\* what the member types: the code of the image in two spellings and a
\* wrong code
TypedCodes == {"K7Q2MX", "k7q2mx", "ZZ99ZZ"}

\* String.prototype.toUpperCase on the codes above
toUpperCase(code) ==
  CASE code = "k7q2mx" -> "K7Q2MX"
    [] OTHER -> code

\* Math.random().toString(36).substring(2, 8).toUpperCase()
GeneratedCodes == {"K7Q2MX", "ZZ99ZZ"}

\* the handlers of two direct messages of the member
DirectMessages == {"d1", "d2"}
NoSubmission == [ pc |-> "idle" ]

\* createCaptchaSession: the member's unverified sessions are deleted and
\* a session with a fresh code, no attempts and an expiry ten minutes
\* ahead is inserted
createCaptchaSession(captchaCode) ==
  [session EXCEPT !.id = @ + 1,
                  !.captcha_code = toUpperCase(captchaCode),
                  !.attempts = 0,
                  !.max_attempts = 3,
                  !.is_verified = FALSE,
                  !.expired = FALSE,
                  !.wrong = 0]

\* handleVerify: a code is drawn and createCaptchaSession is called
HandleVerify ==
  /\ session.pc = "run"
  /\ session.id < MaxSessions
  /\ \E captchaCode \in GeneratedCodes :
       session' = createCaptchaSession(captchaCode)
  /\ UNCHANGED << nukeVars, riskVars, nightCall, lock, race >>

\* ten minutes pass after the creation of the session
Expire ==
  /\ session.pc = "run"
  /\ session.id > 0
  /\ ~session.expired
  /\ session' = [session EXCEPT !.expired = TRUE]
  /\ UNCHANGED << nukeVars, riskVars, nightCall, lock, race >>

\* handleDirectMessage up to the first await of verifyCaptcha and what
\* follows the answer of the select synchronously: the most recent
\* unverified, unexpired session is read; without one, or with its
\* attempts used up, the submission is rejected
VerifyCaptchaSelect(d) ==
  /\ session.pc = "run"
  /\ session.dm[d].pc \in {"idle", "done"}
  /\ session.nSub < MaxSubmissions
  /\ \E typed \in TypedCodes, selectFails \in BOOLEAN :
       LET content == toUpperCase(typed)
           found == /\ ~selectFails
                    /\ session.id > 0
                    /\ ~session.is_verified
                    /\ ~session.expired
           sub == [ pc |-> "done", typed |-> typed, code |-> content,
                    id |-> session.id, attempts |-> session.attempts,
                    max_attempts |-> session.max_attempts,
                    captcha_code |-> session.captcha_code,
                    selected |-> found,
                    wrongBefore |-> session.wrong,
                    result |-> "none" ]
       IN session' =
            [session EXCEPT
               !.nSub = @ + 1,
               !.dm[d] =
                  IF ~found THEN sub
                  ELSE IF sub.attempts >= sub.max_attempts
                  THEN [sub EXCEPT !.result = "exceeded"]
                  ELSE [sub EXCEPT !.pc = "update"]]
  /\ UNCHANGED << nukeVars, riskVars, nightCall, lock, race >>

\* the member whose sessions and direct messages are followed
CaptchaMember == "mallory"

\* verifyCaptcha after its select: a wrong code writes attempts + 1 of the
\* session it read (the outcome of that update is not looked at); the
\* right code marks the session verified, and a failure of that update is
\* thrown and caught; then captcha_verified of the member's discord_users
\* row is set, and the outcome of that update is not looked at either. An
\* update of a session that was deleted meanwhile changes nothing.
VerifyCaptchaUpdate(d) ==
  /\ session.pc = "run"
  /\ session.dm[d].pc = "update"
  /\ LET sub == session.dm[d]
         current == sub.id = session.id
     IN \E updated \in BOOLEAN, userUpdated \in BOOLEAN :
          IF sub.captcha_code # toUpperCase(sub.code)
          THEN /\ session' =
                    [session EXCEPT
                       !.attempts = IF updated /\ current
                                    THEN sub.attempts + 1 ELSE @,
                       !.wrong = IF current THEN @ + 1 ELSE @,
                       !.dm[d].pc = "done",
                       !.dm[d].result = "incorrect"]
               /\ UNCHANGED captchaVerified
          ELSE /\ session' =
                    [session EXCEPT
                       !.is_verified = IF updated /\ current THEN TRUE ELSE @,
                       !.dm[d].pc = "done",
                       !.dm[d].result = IF updated THEN "success" ELSE "error"]
               /\ captchaVerified' =
                    IF updated /\ userUpdated
                    THEN [captchaVerified EXCEPT ![CaptchaMember] = TRUE]
                    ELSE captchaVerified
  /\ UNCHANGED << nukeVars, input, evalPc, decision, classifierCalled,
                  completion, msgCap, message, msgPc, warnings, enforced,
                  modLog, msgTrace, nMsgs, nightCall, lock, race >>

InitCaptcha ==
  /\ NukeIdle
  /\ RiskOff
  /\ nightCall = NoNight
  /\ lock = NoLock
  /\ race = NoRace
  /\ session = [ pc |-> "run", id |-> 0, captcha_code |-> "", attempts |-> 0,
                 max_attempts |-> 3, is_verified |-> FALSE, expired |-> FALSE,
                 wrong |-> 0,    \* 'Incorrect code' answers for the session
                 nSub |-> 0,
                 dm |-> [d \in DirectMessages |-> NoSubmission] ]

NextCaptcha ==
  \/ HandleVerify
  \/ Expire
  \/ \E d \in DirectMessages : VerifyCaptchaSelect(d)
  \/ \E d \in DirectMessages : VerifyCaptchaUpdate(d)

\* the CAPTCHA sessions of one member, the handlers of the member's direct
\* messages interleaving at their awaits
SpecCaptcha == InitCaptcha /\ [][NextCaptcha]_vars

\* ======================================================================
\* The events of the engine's own platform calls
\* ======================================================================
AllIdle == \A h \in Handlers : hs[h].pc = "idle"

\* the listener that receives the event a platform call of the engine
\* causes: channels.create of restoreChannel and of the lockdown
\* announcement, roles.create of restoreRole, member.kick of handleBotAdd,
\* channel.delete of handleChannelCreate
OwnEventKind(op) ==
  CASE op = "restoreChannel" -> "channelCreate"
    [] op = "lockdown" -> "channelCreate"
    [] op = "restoreRole" -> "roleCreate"
    [] op = "kickBot" -> "guildMemberRemove"
    [] op = "deleteChannel" -> "channelDelete"
    [] OTHER -> "none"

\* the gateway delivers the event of a call the engine made; the audit
\* trail names the engine's account as its executor
OwnEvent ==
  /\ AllIdle
  /\ \E c \in calls :
       /\ OwnEventKind(c[1]) # "none"
       /\ focus' = OwnEventKind(c[1])
       /\ actor' = ClientUserId
  /\ UNCHANGED << slots, eventCap, clock, ticks, dbRow, trustedUsers, settings,
                  actionTracker, members, dangerousRoles, hs, nEvents, stats,
                  calls, audit, nUpdates, riskVars, sideVars >>

\* events of an attacker whose handlers call the platform back; the engine's
\* account is a member of the guild and holds a managing role
InitSelf ==
  /\ SideIdle
  /\ slots = {"h1"}
  /\ eventCap = MaxEvents
  /\ focus \in {"channelDelete", "roleDelete", "guildMemberAdd"}
  /\ actor = "mallory"
  /\ clock = 0
  /\ ticks = 0
  /\ dbRow \in {NoRow, DefaultRow({"trusted"})}
  /\ trustedUsers = {TrustedRow("trusted")}
  /\ settings = NotLoaded
  /\ actionTracker = << >>
  /\ members = Users \cup {ClientUserId}
  /\ dangerousRoles = {"owner", "mallory", ClientUserId}
  /\ hs = [h \in Handlers |-> Idle]
  /\ nEvents = 0
  /\ stats = NoStats
  /\ calls = {}
  /\ audit = NoRow
  /\ nUpdates = 0
  /\ RiskIdle
  /\ msgCap = 0
  /\ captchaVerified = [a \in Authors |-> FALSE]
  /\ warnings = [a \in Authors |-> 0]

NextSelf == HandlerStep \/ OwnEvent

SpecSelf == InitSelf /\ [][NextSelf]_vars

\* ======================================================================
\* Properties of the abuse-rate detector
\* ======================================================================
Window == GetNum(settings, "timeWindow")
TrackerKey == Key(actor, ActionType(focus))
Stored == IF TrackerKey \in DOMAIN actionTracker
          THEN actionTracker[TrackerKey] ELSE << >>
\* the tenant owner and the allow-listed actors
Exempt(u) == u = OwnerId \/ isWhitelisted(settings, trustedUsers, u)
\* every trackAction call so far was made within one window
OneWindow == stats.tracked > 0 /\ JsLt(stats.last - stats.first, Window)
\* handler h returns from trackAction in this step
TrackReturns(h) == hs[h].pc = "trackAction" /\ hs'[h].pc # "trackAction"

\* C1: when handlers for the same (tenant, actor, action kind) run
\* concurrently and all record within one window, no event is lost: the
\* counts returned by trackAction are exactly 1..n and the stored sequence
\* holds n timestamps.
C1_NoEventLost ==
  OneWindow =>
    /\ stats.counts = 1..stats.tracked
    /\ Len(Stored) >= stats.tracked

Retained(q, now, w, Keep(_, _)) == SelectSeq(q, LAMBDA t : Keep(now - t, w))
NotOlder(age, w) == age <= w
Younger(age, w) == age < w

C4_ThirdDeletionPunished ==
  ( /\ focus = "channelDelete"
    /\ AllIdle
    /\ GetNum(settings, "channelDeleteLimit") = Num(3)
    /\ ~Exempt(actor)
    /\ stats.tracked = 3
    /\ OneWindow )
  => /\ stats.punishUser
     /\ << "restoreChannel", actor >> \in calls

\* C5: punishUser never acts on the guild owner: no role removal, ban, kick,
\* role strip, owner notification or lockdown is made for an owner actor, and
\* the owner stays a member with its roles.
C5_OwnerNeverPunished ==
  /\ \A c \in calls : c[2] = OwnerId => c[1] \notin PunishOps \cup EscalationOps
  /\ OwnerId \in members
  /\ OwnerId \in dangerousRoles

\* punishUser has run for the owner and returned
C5_Witness ==
  \E h \in Handlers :
    /\ hs[h].pc = "reverse"
    /\ hs[h].user = OwnerId
    /\ stats.punishUser

\* C6: an event attributed to the owner or to an allow-listed actor causes
\* no punishment, no reversal and no lockdown, and its handler ends by
\* writing the audit record.
C6_ExemptAuditOnly ==
  [][ \A h \in Handlers :
        (hs[h].user # "none" /\ Exempt(hs[h].user))
          => /\ \A c \in calls' : c[2] # hs[h].user
             /\ hs'[h].pc = "idle" => hs[h].pc = "logSecurityEvent" ]_vars

\* C7: a handler started after a completed settings command decides with the
\* updated enabled flag, also when the policy was cached before the command.
C7_UpdateTakesEffect ==
  \A h \in Handlers :
    ( /\ hs[h].pc \notin {"idle", "getSettings"}
      /\ nUpdates > 0
      /\ hs[h].epoch = nUpdates
      /\ Has(settings, "guild_id") )
    => Truthy(dbRow, "enabled")

\* ======================================================================
\* Properties of the content risk engine
\* ======================================================================
\* the band table: SAFE 0-30, SUSPICIOUS 31-65, DANGEROUS 66-100
Band(score) ==
  IF score <= 30 THEN "SAFE" ELSE IF score <= 65 THEN "SUSPICIOUS"
  ELSE "DANGEROUS"

\* C8: every decision returned by analyzeMessageWithGroq has a risk_score
\* that is a number in [0,100] and the risk_level of that score's band,
\* whatever the input and whatever the classifier does.
C8_ScoreInRangeAndBanded ==
  evalPc = "done" =>
    /\ IsNum(decision.risk_score)
    /\ decision.risk_score.v >= 0
    /\ decision.risk_score.v <= 100
    /\ decision.risk_level = Band(decision.risk_score.v)

\* C9: for an input of the bot owner analyzeMessageWithGroq returns score 0,
\* SAFE, ALLOW with the fixed justification and never calls the classifier,
\* whatever the other fields; handleMessage applies no enforcement to an
\* owner's message, writes no moderation record for it and adds no warning.
C9_OwnerBypassed ==
  /\ (evalPc = "done" /\ input.user_id = DISCORD_OWNER_ID)
       => (decision = OwnerDecision /\ ~classifierCalled)
  /\ \A e \in enforced : e[2] # DISCORD_OWNER_ID
  /\ (message # NoMessage /\ message.author = DISCORD_OWNER_ID)
       => (enforced = {} /\ modLog = NoRow)
  /\ warnings[DISCORD_OWNER_ID] = 0

\* an unverified owner with a new account, open warnings and a scam message
\* was evaluated
C9_Witness ==
  /\ evalPc = "done"
  /\ input.user_id = DISCORD_OWNER_ID
  /\ ~input.captcha_verified
  /\ input.user_account_age_days < 7
  /\ input.previous_warnings_count > 0
  /\ input.message_content.scam > 0
  /\ decision.recommended_action = "ALLOW"

\* unverified and new, just joined or warned
Gated(in) ==
  /\ ~in.captcha_verified
  /\ \/ in.user_account_age_days < 7
     \/ in.server_join_age_minutes < 10
     \/ in.previous_warnings_count > 0

C11_FailureFallsBack ==
  evalPc = "done" =>
    /\ decision # Raised
    /\ decision # NoDecision
    /\ (Has(completion, "failure")
          /\ completion.failure \in {"rejected", "unparsable"})
         => decision = fallbackAnalysis(input)

\* the body of the completion did not parse and the fallback decided
C11_Witness ==
  /\ evalPc = "done"
  /\ completion = [failure |-> "unparsable"]
  /\ decision.reasoning = "Fallback analysis"
  /\ decision.recommended_action = "MUTE"

\* a decision object as the classifier is asked to produce it: a risk_score
\* in 0..100 and a recommended_action of the action vocabulary
WellFormed(resp) ==
  /\ Has(resp, "risk_score")
  /\ resp.risk_score \in 0..100
  /\ Has(resp, "recommended_action")
  /\ resp.recommended_action \in AiActions

\* the classifier answered with a body that parsed to an object
Answered ==
  /\ evalPc = "done"
  /\ classifierCalled
  /\ completion # NoResponse
  /\ ~Has(completion, "failure")

\* C12: when the classifier answers with something that is not a valid
\* decision object (an empty object, a missing or out-of-range risk_score, a
\* missing recommended_action) the decision of analyzeMessageWithGroq is the
\* fallback classifier's decision for the input, as after a failed call.
C12_MalformedGivesFallback ==
  (Answered /\ ~WellFormed(completion)) => decision = fallbackAnalysis(input)

\* ALLOW < WARN < DELETE < MUTE < KICK < BAN
SeverityRank ==
  [ a \in {"ALLOW", "WARN", "DELETE", "MUTE", "KICK", "BAN"} |->
      CASE a = "ALLOW" -> 0 [] a = "WARN" -> 1 [] a = "DELETE" -> 2
        [] a = "MUTE" -> 3 [] a = "KICK" -> 4 [] a = "BAN" -> 5 ]

\* action b is not below action a: the same action, or both ranked and b at
\* least as severe
NotLower(a, b) ==
  \/ b = a
  \/ /\ a \in DOMAIN SeverityRank
     /\ b \in DOMAIN SeverityRank
     /\ SeverityRank[b] >= SeverityRank[a]

\* the same input with warning count w2
WithWarnings(in, w2) == [in EXCEPT !.previous_warnings_count = w2]

\* the warning counts above the one of the evaluated input
MoreWarnings == (input.previous_warnings_count + 1)..MaxWarnings

\* the evaluation agrees with analyzeMessageWithGroq as a function
EvalIsFunction ==
  evalPc = "done" => decision = analyzeMessageWithGroq(input, completion)

\* C13 as claimed: for two inputs that differ only in the warning count
\* w < w' and the same classifier behaviour, the action returned for w' is
\* never below the action returned for w in ALLOW < WARN < DELETE < MUTE <
\* KICK < BAN.
C13_AsClaimed ==
  evalPc = "done" =>
    \A w2 \in MoreWarnings :
      NotLower(decision.recommended_action,
               analyzeMessageWithGroq(WithWarnings(input, w2),
                                      completion).recommended_action)

\* C13 amended: the same, except where the actor is unverified: with w' > 0
\* the challenge gate then answers with the challenge decision, whose action
\* CAPTCHA has no rank, whatever the action returned for w was.
C13_MonotoneUnlessChallenged ==
  evalPc = "done" =>
    \A w2 \in MoreWarnings :
      LET other == analyzeMessageWithGroq(WithWarnings(input, w2), completion)
      IN \/ NotLower(decision.recommended_action, other.recommended_action)
         \/ /\ ~input.captcha_verified
            /\ ~isBotOwner(input.user_id)
            /\ other = CaptchaDecision

\* a verified actor with 2 warnings whose message the classifier answers
\* with WARN gets WARN, and MUTE with 3 warnings
C13_Witness ==
  /\ evalPc = "done"
  /\ input.captcha_verified
  /\ input.previous_warnings_count = 2
  /\ classifierCalled
  /\ completion = [risk_score |-> 31, recommended_action |-> "WARN"]
  /\ decision.recommended_action = "WARN"
  /\ analyzeMessageWithGroq(WithWarnings(input, 3),
                            completion).recommended_action = "MUTE"

\* C14: a classifier decision with action A for an actor with w open
\* warnings is returned with action MUTE when A is WARN and w >= 3, MUTE when
\* A is DELETE and w >= 2, KICK when A is MUTE and w >= 4, and A otherwise.
C14_HistoryEscalation ==
  (Answered /\ Has(completion, "recommended_action")) =>
    LET A == completion.recommended_action
        w == input.previous_warnings_count
    IN decision.recommended_action =
         CASE A = "WARN" /\ w >= 3 -> "MUTE"
           [] A = "DELETE" /\ w >= 2 -> "MUTE"
           [] A = "MUTE" /\ w >= 4 -> "KICK"
           [] OTHER -> A

\* an actor with 3 open warnings whose message the classifier rates as a
\* SUSPICIOUS WARN gets MUTE
C14_Witness ==
  /\ Answered
  /\ input.previous_warnings_count = 3
  /\ completion = [risk_score |-> 31, recommended_action |-> "WARN"]
  /\ decision.risk_level = "SUSPICIOUS"
  /\ decision.recommended_action = "MUTE"

\* C15: for the message "WIN FREE DISCORD NITRO bit.ly/xyz" from a verified
\* actor with 0 warnings and an account of 200 days, with the classifier
\* unavailable, the fallback fires only SCAM and CONTAINS_LINKS, the score is
\* 40, the level SUSPICIOUS and the action WARN.
C15_NitroScenario ==
  ( /\ evalPc = "done"
    /\ Has(completion, "failure")
    /\ input.message_content.text = "WIN FREE DISCORD NITRO bit.ly/xyz"
    /\ input.links_present = input.message_content.links
    /\ input.captcha_verified
    /\ input.previous_warnings_count = 0
    /\ input.user_account_age_days = 200
    /\ input.server_join_age_minutes >= 5 )
  => /\ decision.detected_categories = {"SCAM", "CONTAINS_LINKS"}
     /\ decision.risk_score = Num(40)
     /\ decision.risk_level = "SUSPICIOUS"
     /\ decision.recommended_action = "WARN"

\* the night interval as specified: wrapping midnight when start > end
InInterval(h, start, end) ==
  IF start > end THEN h >= start \/ h < end ELSE h >= start /\ h < end

\* C16: with night mode enabled, for every configured start hour and end
\* hour in 0..23 and every local hour h in 0..23, isNightMode returns
\* (h >= start or h < end) when start > end and (h >= start and h < end)
\* otherwise.
C16_NightInterval ==
  LET s == nightCall.settings
  IN ( /\ nightCall.pc \in {"checked", "done"}
       /\ Truthy(s, "nightmodeEnabled")
       /\ KnownTimeZone(TimeZoneOf(s))
       /\ Has(s, "nightmodeStartHour")
       /\ Has(s, "nightmodeEndHour") )
     => nightCall.isNight =
          InInterval(nightCall.h, s.nightmodeStartHour, s.nightmodeEndHour)

\* startHour and endHour as documented: 23 and 7 unless configured
StartOf(s) == IF Has(s, "nightmodeStartHour") THEN s.nightmodeStartHour ELSE 23
EndOf(s) == IF Has(s, "nightmodeEndHour") THEN s.nightmodeEndHour ELSE 7

\* night mode enabled, the zone resolved, the hour inside the night
\* interval, stricter night limits not opted out of and a night value
\* configured for the kind
NightLimitApplies ==
  LET s == nightCall.settings
  IN /\ Truthy(s, "nightmodeEnabled")
     /\ KnownTimeZone(TimeZoneOf(s))
     /\ InInterval(nightCall.h, StartOf(s), EndOf(s))
     /\ Truthy(s, "nightmodeStricterLimits")
     /\ Has(s, NightKey(nightCall.limitType))

\* C17: getEffectiveLimit returns the night-specific limit of the action
\* kind exactly when night mode is enabled, the current hour is inside the
\* night interval, the tenant has not opted out of stricter night limits and
\* a night-specific value is configured for that kind; in every other case,
\* a failed timezone resolution included, it returns the standard limit.
C17_EffectiveLimit ==
  nightCall.pc = "done" =>
    nightCall.limit =
      IF NightLimitApplies
      THEN Num(nightCall.settings[NightKey(nightCall.limitType)])
      ELSE GetNum(nightCall.settings, nightCall.limitType)

\* the lockdown announcement channels of the guild
Announcements(chs) == { i \in 1..Len(chs) : chs[i].name \in LockdownNames }

\* C18: after Lockdown has been entered one or more times without an unlock
\* in between (and no Discord call was rejected), every text-capable
\* channel of the tenant other than the announcement has the default role's
\* send permission denied, the tenant has exactly one lockdown announcement
\* channel, and entering Lockdown on the already locked tenant changed no
\* channel's permission.
C18_LockdownState ==
  (lock.pc = "run" /\ lock.entered >= 1 /\ ~lock.failed) =>
    /\ \A i \in TextIndexes(lock.channels) \ Announcements(lock.channels) :
         lock.channels[i].send = "deny"
    /\ Cardinality(Announcements(lock.channels)) = 1
    /\ lock.reentered =>
         \A i \in 1..Len(lock.previous) :
           lock.channels[i].send = lock.previous[i].send

\* C19: for every text-capable channel that existed before the lockdown, the
\* default role's send permission after lockdown followed by unlockServer
\* (no Discord call rejected) equals its value before the lockdown, and
\* after unlockServer no lockdown announcement channel remains.
C19_RoundTrip ==
  (lock.pc = "run" /\ lock.unlocked /\ ~lock.failed) =>
    /\ Announcements(lock.channels) = {}
    /\ Len(lock.channels) = Len(lock.before)
    /\ \A i \in TextIndexes(lock.before) :
         lock.channels[i].send = lock.before[i].send

\* C20: every attributed administrative event in an enabled tenant leads to
\* an audit-record write (logSecurityEvent) carrying action kind, actor,
\* observed count, limit in force and the night-mode flag, whether or not
\* the event escalated and whether or not a punishment or reversal step
\* succeeded: the handler of an attributed event ends only by that write
\* (stated here for the actors that are not exempt).
C20_EveryEventAudited ==
  [][ \A h \in Handlers :
        (hs[h].user # "none" /\ ~Exempt(hs[h].user) /\ hs'[h].pc = "idle") =>
          /\ hs[h].pc = "logSecurityEvent"
          /\ LET rec == AuditRecord(hs[h])
             IN /\ rec.eventType = Reason(hs[h].kind)
                /\ rec.userId = hs[h].user
                /\ IsNum(rec.actionCount)
                /\ IsNum(rec.limit)
                /\ rec.nightMode \in {"true", "false"} ]_vars

\* the handling of a guild message of a non-owner actor has ended
Handled ==
  /\ msgPc = "idle"
  /\ message # NoMessage
  /\ ~isBotOwner(message.author)

\* C21: for every guild message of a non-owner actor, if a persistence call
\* made by handleMessage fails (getOrCreateUser, getOrCreateServerMember,
\* logMessage, logModerationAction, addWarning, updateAverageRiskScore), a
\* decision is still produced and enforced for the message and the failure
\* is logged.
C21_PersistenceFailureNonFatal ==
  (Handled /\ msgTrace.failed \in ReadFailures \cup WriteFailures) =>
    /\ msgTrace.decided
    /\ msgTrace.logged

\* the tier of a handler of actions.js: kick above mute above delete
Tier(handler) ==
  CASE handler = "handleKick" -> 3
    [] handler = "handleMute" -> 2
    [] handler = "handleDelete" -> 1
    [] OTHER -> 0

\* the platform call was made in the run, whether or not it succeeded
Attempted(run, call) == \E i \in 1..Len(run.attempts) : run.attempts[i] = call
Entered(run, handler) == \E i \in 1..Len(run.handlers) : run.handlers[i] = handler

\* executeAction ran a KICK or a MUTE decision for the message
ChainRan ==
  /\ Handled
  /\ msgTrace.decided
  /\ Len(msgTrace.run.handlers) > 0
  /\ msgTrace.run.handlers[1] \in {"handleKick", "handleMute"}

\* C22: executeAction for a KICK decision attempts the kick; if the kick
\* cannot be applied or fails it attempts the mute; if the mute cannot be
\* applied or fails it attempts the message deletion; a MUTE decision falls
\* back to deletion in the same way; the chain never goes to a stronger
\* tier and always terminates.
C22_FallbackChain ==
  ChainRan =>
    LET run == msgTrace.run
        standing == msgTrace.standing
    IN /\ (run.handlers[1] = "handleKick" /\ standing.kickable)
            => Attempted(run, "kick")
       /\ (run.handlers[1] = "handleKick" /\ "kick" \notin run.applied)
            => /\ Entered(run, "handleMute")
               /\ standing.moderatable => Attempted(run, "mute")
       /\ (Entered(run, "handleMute") /\ "mute" \notin run.applied)
            => /\ Entered(run, "handleDelete")
               /\ standing.deletable => Attempted(run, "delete")
       /\ \A i \in 1..(Len(run.handlers) - 1) :
            Tier(run.handlers[i + 1]) < Tier(run.handlers[i])
       /\ Len(run.handlers) <= 3

\* the decision for activation m after reading w warnings
DecisionAt(m, w) ==
  analyzeMessageWithGroq(RaceInput(race.act[m].content, race.verified, w),
                         race.behaviour)

\* the two decisions and the final warning count when the message of first
\* is handled to its end before the other one
Serial(first, second) ==
  LET d1 == DecisionAt(first, race.initial)
      w1 == race.initial + (IF AddsWarning(d1) THEN 1 ELSE 0)
      d2 == DecisionAt(second, w1)
  IN [ decisions |-> (first :> d1) @@ (second :> d2),
       warnings |-> w1 + (IF AddsWarning(d2) THEN 1 ELSE 0) ]

\* C23: when two messages of the same actor are handled concurrently, the
\* two decisions and the final open-warning count are the same as if the
\* messages had been handled one after the other in some order.
C23_SerializableEscalation ==
  (race.pc = "run" /\ \A m \in Activations : race.act[m].pc = "done") =>
    \E order \in { << "m1", "m2" >>, << "m2", "m1" >> } :
      LET serial == Serial(order[1], order[2])
      IN /\ \A m \in Activations :
              race.act[m].decision = serial.decisions[m]
         /\ race.warnings = serial.warnings

\* C24: a decision whose risk level is SAFE always has action ALLOW: the
\* handling of a message with such a decision executes no enforcement (no
\* warning message, deletion, mute or kick) and adds no warning, on the
\* classifier path (stated for the answers that are decision objects of the
\* requested format) as well as on the fallback path.
C24_SafeAllows ==
  [][ ( /\ msgPc = "analyze"
        /\ evalPc = "done"
        /\ Answered => WellFormed(completion)
        /\ decision.risk_level = "SAFE"
        /\ msgPc' = "idle" ) =>
        /\ decision.recommended_action = "ALLOW"
        /\ msgTrace'.run = NoRun
        /\ enforced' = enforced
        /\ warnings' = warnings ]_vars

\* the enforcement that took effect in a run of executeAction, by the name
\* of its tier; "none" when no call of the run succeeded
Effective(run) ==
  IF "kick" \in run.applied THEN "KICK"
  ELSE IF "mute" \in run.applied THEN "MUTE"
  ELSE IF "delete" \in run.applied THEN "DELETE"
  ELSE IF "warn" \in run.applied THEN "WARN"
  ELSE IF "captcha" \in run.applied THEN "CAPTCHA"
  ELSE "none"

\* C27: the action_taken stored in the moderation record of a message is
\* the enforcement that was actually applied to it: when a KICK or MUTE
\* decision fell back to a weaker tier, or when the enforcement failed
\* altogether, action_taken names the tier that really took effect (or no
\* enforcement) and not the recommended action (stated for the KICK and
\* MUTE decisions).
C27_ActionTakenIsApplied ==
  [][ ( /\ msgPc = "analyze"
        /\ evalPc = "done"
        /\ decision.recommended_action \in {"KICK", "MUTE"}
        /\ msgPc' = "idle"
        /\ msgTrace'.decided
        /\ msgTrace'.failed # "logModerationAction" ) =>
        LET took == Effective(msgTrace'.run)
        IN IF took = "none"
           THEN modLog'.actionTaken
                  \notin {"KICK", "MUTE", "DELETE", "WARN", "CAPTCHA"}
           ELSE modLog'.actionTaken = took ]_vars

\* C25: after the antinuke whitelist command (or the trusted add command)
\* for user U has completed successfully, isWhitelisted(G, U) is true for
\* every later administrative event attributed to U in G, until U is
\* removed by the unwhitelist / trusted remove command.
C25_CommandAllowListed ==
  \A h \in Handlers :
    ( /\ hs[h].pc = "isWhitelisted"
      /\ hs[h].epoch = nUpdates      \* no command since the event
      /\ TrustedRow(hs[h].user) \in trustedUsers )
      => isWhitelisted(settings, trustedUsers, hs[h].user)
\* C26: a challenge session is valid for 10 minutes and 3 attempts:
\* verifyCaptcha succeeds only for a submission whose code equals the
\* session code (case-insensitively), made before expiry and after fewer
\* than 3 wrong submissions to that session; once 3 wrong codes have been
\* submitted every later submission to the session, the correct code
\* included, is rejected, and the stored attempts counter never exceeds 3.
C26_CaptchaAttempts ==
  session.pc = "run" =>
    /\ session.attempts <= 3
    /\ \A d \in DirectMessages :
         (session.dm[d].pc = "done" /\ session.dm[d].result = "success") =>
           /\ toUpperCase(session.dm[d].typed) = session.dm[d].captcha_code
           /\ session.dm[d].selected
           /\ session.dm[d].wrongBefore < 3

\* the punishment kind the guild has configured: the column of its row of
\* antinuke_settings, or the default of the detector when the guild is
\* handled with DEFAULT_SETTINGS
ConfiguredPunishment(s) ==
  IF Has(s, "punishment_type") THEN GetStr(s, "punishment_type")
  ELSE GetStr(s, "punishmentType")

\* C28: each time punishUser runs for an actor who is a member of the guild
\* and not its owner, it first removes the actor's dangerous roles and then
\* applies exactly one punishment, the one named by the guild's configured
\* punishment kind; never zero and never more than one (a platform call
\* that throws ends punishUser, so the formula asks that the configured
\* punishment is the one selected and that no other one is applied).
C28_OnePunishment ==
  [][ \A h \in Handlers :
        ( /\ hs[h].pc = "punishUser"
          /\ hs'[h].pc # "punishUser"
          /\ hs[h].user \in members
          /\ ~isGuildOwner(hs[h].user)
          /\ \A op \in PunishOps : << op, hs[h].user >> \notin calls ) =>
          LET u == hs[h].user
              selected == PunishmentOp(GetStr(settings, "punishmentType"))
              applied == { op \in {"ban", "kick", "stripRoles"} :
                             << op, u >> \in calls' }
          IN /\ selected # "none"
             /\ selected = PunishmentOp(ConfiguredPunishment(settings))
             /\ applied \subseteq {selected}
             /\ u \in dangerousRoles => << "removeRole", u >> \in calls' ]_vars

\* the listeners with a self-healing step and the reversal that matches
\* the event: the channel or the role is recreated, the user is unbanned
HealedKinds == {"channelDelete", "roleDelete", "guildBanAdd"}
Matching(kind) ==
  CASE kind = "channelDelete" -> "restoreChannel"
    [] kind = "roleDelete" -> "restoreRole"
    [] kind = "guildBanAdd" -> "unban"
    [] OTHER -> "none"

\* the reversal calls among a set of platform calls
Reversals(cs) == { c \in cs : c[1] \in ReversalOps }

\* C29: on every breach of the limit of channel-delete, role-delete or ban
\* (the count trackAction returned reaches the limit of the handler), the
\* handler attempts the matching reversal exactly once and after the
\* punishment step, whether or not the punishment succeeded; no reversal is
\* attempted for an event whose count is below the limit.
C29_SelfHealing ==
  [][ \A h \in Handlers :
        hs[h].kind \in HealedKinds =>
          LET breach == JsGe(hs'[h].count, hs[h].limit)
          IN /\ (hs[h].pc = "trackAction" /\ hs'[h].pc # "trackAction") =>
                  /\ breach => hs'[h].pc = "punishUser"
                  /\ ~breach => hs'[h].pc = "logSecurityEvent"
             /\ (hs[h].pc # "reverse" /\ hs'[h].pc = "reverse") =>
                  hs[h].pc = "punishUser"
             /\ (hs[h].pc = "punishUser" /\ hs'[h].pc # "punishUser") =>
                  hs'[h].pc = "reverse"
             /\ (hs[h].pc = "reverse" /\ hs'[h].pc # "reverse") =>
                  /\ hs'[h].pc \in {"logSecurityEvent", "idle"}
                  /\ << Matching(hs[h].kind), hs[h].user >> \in calls'
                  /\ Reversals(calls') \subseteq
                       Reversals(calls)
                         \cup {<< Matching(hs[h].kind), hs[h].user >>}
             /\ (hs[h].pc # "reverse" \/ hs'[h].pc = "reverse") =>
                  Reversals(calls') = Reversals(calls) ]_vars

\* a third channel deletion reached the limit, the ban of the actor failed
\* and the channel has been recreated all the same
C29_Witness ==
  \E h \in Handlers :
    /\ hs[h].pc = "logSecurityEvent"
    /\ hs[h].kind = "channelDelete"
    /\ JsGe(hs[h].count, hs[h].limit)
    /\ GetStr(settings, "punishmentType") = "BAN"
    /\ ~isGuildOwner(hs[h].user)
    /\ hs[h].user \in members
    /\ << "ban", hs[h].user >> \notin calls
    /\ << "restoreChannel", hs[h].user >> \in calls

\* no handler activation has an executor
Unattributed == \A h \in Handlers : hs[h].user = "none"

\* C30: when the audit trail returns no entry for the event's action kind,
\* an entry without executor, or (for a member removal) an entry whose
\* target is not the removed member, the handler returns without raising
\* and changes nothing: no sliding-window counter is modified, no
\* punishment, reversal or lockdown is executed and no audit record is
\* written.
C30_UnattributedChangesNothing ==
  [][ /\ (Unattributed /\ Unattributed') =>
           UNCHANGED << actionTracker, calls, audit, members, dangerousRoles,
                        stats >>
      /\ \A h \in Handlers :
           (hs[h].pc = "fetchAuditLogs" /\ hs'[h].user = "none"
              /\ hs'[h] # hs[h]) => hs'[h] = Idle ]_vars

\* the handler of a channel deletion of a non-exempt actor has ended at
\* its attribution checks: nothing was counted, called or recorded
C30_Witness ==
  /\ focus = "channelDelete"
  /\ nEvents = 1
  /\ AllIdle
  /\ settings # NotLoaded
  /\ Truthy(settings, "enabled")
  /\ ~Exempt(actor)
  /\ actionTracker = << >>
  /\ calls = {}
  /\ audit = NoRow

\* C31: if logSecurityEvent fails while an administrative event is handled,
\* the handler completes without raising, the punishment, reversal and
\* lockdown already executed for the event stay in place, and the event
\* remains counted in the sliding window.
C31_AuditFailureSwallowed ==
  [][ \A h \in Handlers :
        ( /\ hs[h].pc = "logSecurityEvent"
          /\ hs'[h].pc # "logSecurityEvent"
          /\ audit' = audit ) =>
          /\ hs'[h] = Idle
          /\ UNCHANGED << calls, members, dangerousRoles, actionTracker >> ]_vars

\* three channel deletions were handled, the third one punished and
\* reversed, and no audit write succeeded
C31_Witness ==
  /\ focus = "channelDelete"
  /\ AllIdle
  /\ audit = NoRow
  /\ Len(Stored) = 3
  /\ << "ban", actor >> \in calls
  /\ << "lockdown", actor >> \in calls
  /\ << "restoreChannel", actor >> \in calls

\* C32: a role update by a non-exempt actor that adds a dangerous
\* permission relative to the role's prior permissions leads to punishUser
\* on its first occurrence and to setPermissions with the prior set, and it
\* modifies no sliding-window counter; a role update that adds none of
\* these permissions triggers nothing.
C32_SingleStrike ==
  [][ /\ \A oldPerms \in SUBSET RolePerms, newPerms \in SUBSET RolePerms :
           hasDangerousPerms(oldPerms, newPerms)
             <=> (newPerms \ oldPerms) \cap dangerousPerms # {}
      /\ \A h \in Handlers :
           hs[h].kind = "roleUpdate" =>
             /\ actionTracker' = actionTracker
             /\ hs'[h].pc # "trackAction"
             /\ ( /\ hs[h].pc = "isWhitelisted"
                  /\ hs'[h].pc # "isWhitelisted"
                  /\ ~Exempt(hs[h].user) ) =>
                  /\ hs'[h].pc = "punishUser"
                  /\ hs'[h].count = 1
             /\ (hs[h].pc = "punishUser" /\ hs'[h].pc # "punishUser") =>
                  hs'[h].pc = "reverse"
             /\ (hs[h].pc = "reverse" /\ hs'[h].pc # "reverse") =>
                  << "setPermissions", hs[h].user >> \in calls' ]_vars

\* the first role update of a non-exempt actor was punished and reverted
C32_Witness ==
  \E h \in Handlers :
    /\ hs[h].kind = "roleUpdate"
    /\ hs[h].pc = "logSecurityEvent"
    /\ nEvents = 1
    /\ ~Exempt(hs[h].user)
    /\ stats.punishUser
    /\ << "setPermissions", hs[h].user >> \in calls
    /\ actionTracker = << >>

\* analyzeMessageWithGroq returned from its catch block
FallbackPath ==
  /\ evalPc = "done"
  /\ classifierCalled
  /\ Has(completion, "failure")

\* the fallback classification of the input's content and ages alone (no
\* warnings), as a classification handed to step 4
FallbackBase(in) ==
  LET base == fallbackAnalysis([in EXCEPT !.previous_warnings_count = 0])
  IN [ risk_score |-> base.risk_score.v,
       recommended_action |-> base.recommended_action ]

\* C33: the decision returned after a classifier failure also has its score
\* increased by 10 x open-warning count (clamped to 100), its action
\* escalated by the warning-count rules (WARN to MUTE at >= 3, DELETE to
\* MUTE at >= 2, MUTE to KICK at >= 4) and its level recomputed, exactly as
\* a decision that came from the classifier.
C33_FallbackAdjusted ==
  FallbackPath =>
    LET adjusted == adjustForUserHistory(FallbackBase(input), input)
    IN /\ decision.risk_score = adjusted.risk_score
       /\ decision.risk_level = adjusted.risk_level
       /\ decision.recommended_action = adjusted.recommended_action

\* the action table of the fallback decision
FallbackAction(score, w) ==
  IF score <= 30 THEN "ALLOW"
  ELSE IF score <= 65
  THEN IF w = 0 THEN "WARN" ELSE IF w = 1 THEN "DELETE" ELSE "MUTE"
  ELSE IF score >= 85 /\ w >= 2 THEN "KICK"
  ELSE IF score >= 70 THEN "MUTE"
  ELSE "DELETE"

\* C34: the action of a fallback decision is ALLOW for a score up to 30; for
\* 31..65 it is WARN with no warning, DELETE with one, MUTE with two or more;
\* for 66..100 it is KICK when the score is at least 85 and there are two or
\* more warnings, otherwise MUTE from 70, otherwise DELETE.  The table is
\* checked on every score in 0..100 with the warning counts of the model
\* (once per evaluation, before it starts) and on every fallback decision the
\* engine returns.
C34_FallbackBanding ==
  /\ evalPc = "start" =>
       \A score \in 0..100, w \in 0..MaxWarnings :
         determineAction(score, RiskLevel(Num(score)), w)
           = FallbackAction(score, w)
  /\ FallbackPath =>
       decision.recommended_action
         = FallbackAction(decision.risk_score.v, input.previous_warnings_count)

\* a fallback decision of 85 or more for an actor with two open warnings is
\* KICK
C34_Witness ==
  /\ FallbackPath
  /\ decision.risk_score.v >= 85
  /\ input.previous_warnings_count = 2
  /\ decision.recommended_action = "KICK"

\* the limit fields the handlers read through getEffectiveLimit
CountedLimits == { LimitType(kind) : kind \in EventKinds } \ {"noLimit"}

\* C35: the policy object the detector holds for the tenant (the built-in
\* defaults, a policy loaded or created through the store, or one changed by
\* the config command) provides, under the names the detector reads, a limit
\* that is a number of at least 1 for every counted action kind and a
\* timeWindow above 0.
C35_PolicyInvariant ==
  settings # NotLoaded =>
    /\ \A f \in CountedLimits :
         IsNum(GetNum(settings, f)) /\ GetNum(settings, f).v >= 1
    /\ IsNum(GetNum(settings, "timeWindow"))
    /\ GetNum(settings, "timeWindow").v > 0

\* C37 as claimed: whenever handleMessage completes for a message of a
\* non-owner author with every call succeeding, the author's count of open
\* warnings has grown by exactly one if the action taken (as recorded) was
\* neither ALLOW nor CAPTCHA and is unchanged otherwise.
C37_AsClaimed ==
  [][ ( /\ msgPc # "idle"
        /\ msgPc' = "idle"
        /\ ~isBotOwner(message.author)
        /\ msgTrace'.failed = "none" ) =>
        warnings' =
          [warnings EXCEPT ![message.author] =
             IF modLog'.actionTaken \in {"WARN", "DELETE", "MUTE", "KICK"}
             THEN @ + 1 ELSE @] ]_vars

\* handleMessage reaches its end for a message that passed the verification
\* check and was analysed: neither logModerationAction nor addWarning throws
Completes ==
  /\ msgPc = "analyze"
  /\ msgPc' = "idle"
  /\ msgTrace'.failed \notin {"logModerationAction", "addWarning"}

\* C37 amended: when handleMessage completes for a message that passed the
\* verification check, the author's count of open warnings has grown by
\* exactly one if the action returned by executeAction was WARN, DELETE,
\* MUTE or KICK (neither ALLOW nor CAPTCHA) and is unchanged otherwise, and
\* nobody else's count changes; a message blocked by the verification check
\* adds no warning; in every step a count that decreases is set to 0 by the
\* clear-warnings command, outside the handling of a message.
C37_WarningAccounting ==
  [][ /\ Completes =>
           warnings' =
             [warnings EXCEPT ![message.author] =
                IF decision.recommended_action \in {"WARN", "DELETE", "MUTE", "KICK"}
                THEN @ + 1 ELSE @]
      /\ (msgPc = "handleMessage" /\ msgPc' = "idle") => warnings' = warnings
      /\ \A a \in Authors :
           warnings'[a] < warnings[a] =>
             /\ warnings'[a] = 0
             /\ UNCHANGED << msgPc, evalPc, nMsgs, decision, modLog, enforced,
                             msgTrace >> ]_vars

\* an analysed message ran handleDelete and was recorded with action DELETE,
\* which left its author with a warning more, and the clear-warnings command
\* then removed the author's warnings
C37_Witness ==
  /\ Handled
  /\ msgTrace.decided
  /\ msgTrace.failed = "none"
  /\ Entered(msgTrace.run, "handleDelete")
  /\ modLog # NoRow
  /\ modLog.actionTaken = "DELETE"
  /\ warnings[message.author] = 0

C39_NoSelfEnforcement ==
  /\ \A k \in DOMAIN actionTracker : k[2] # ClientUserId
  /\ \A h \in Handlers :
       hs[h].user = ClientUserId =>
         hs[h].pc \notin {"trackAction", "punishUser", "reverse"}
  /\ \A c \in calls : c[2] # ClientUserId

\* verifyCaptcha has answered a direct message of the member with success
Succeeded ==
  \E d \in DirectMessages :
    session.dm[d].pc = "done" /\ session.dm[d].result = "success"

\* the moderation inputs handleMessage builds for the member from the stored
\* flag
MemberInputs ==
  { in \in Inputs :
      /\ in.user_id = CaptchaMember
      /\ in.captcha_verified = captchaVerified[CaptchaMember]
      /\ in.links_present = in.message_content.links
      /\ in.message_content.text = "hello" }

\* C40: once verifyCaptcha has succeeded for a member, the member's
\* captcha_verified flag is true, and analyzeMessageWithGroq does not return
\* the challenge decision for the member, whatever the account age, the
\* membership age and the warning count.
C40_VerifiedForGood ==
  Succeeded =>
    /\ captchaVerified[CaptchaMember]
    /\ \A in \in MemberInputs : ~shouldRequireCaptcha(in)

====
